---- MODULE Spec2Model ----
(***************************************************************************)
(* Model of the ordhook service orchestrator                               *)
(* (components/ordhook-cli/src/service/mod.rs):                            *)
(*   - Service::run with its catch-up call to Service::update_state,       *)
(*   - create_and_consolidate_chainhook_config_with_predicates and the     *)
(*     replay feed started at launch,                                      *)
(*   - Service::replay_transfers,                                          *)
(*   - the "Block pre-processor" thread of Service::run,                   *)
(*   - the lifecycle event loop of Service::run and the predicate store    *)
(*     helpers (update_predicate_status, update_predicate_spec,            *)
(*     retrieve_predicate_status),                                         *)
(*   - Config::from_config_file (components/ordhook-cli/src/config/mod.rs),*)
(*     for the network and http_api parts of the configuration.            *)
(* Results of collaborators that live outside service/mod.rs (index        *)
(* handles, compression, rollback, sync policy, pipeline, redis) are       *)
(* nondeterministic choices between success and failure.                   *)
(***************************************************************************)
EXTENDS Naturals, Sequences, FiniteSets, TLC

(***************************************************************************)
(* Bounds of the model.                                                    *)
(***************************************************************************)
\* commands the chain event source sends on block_processor_in
MaxCmds == 2
\* gaps the sync policy reports during one update_state invocation
MaxGaps == 2
\* blocks the indexing processors forward to the replay feed
MaxReplayed == 2
\* lifecycle events the observer sends on observer_event
MaxEvents == 3

(***************************************************************************)
(* Inputs.                                                                 *)
(***************************************************************************)
\* block heights (block.block_identifier.index) carried by commands
Heights == {10, 11}

\* HandleBlock: ApplyBlocks carries blocks by ascending height, UndoBlocks
\* by descending height (most recent first).
ApplyBatches == {<<10>>, <<11>>, <<10, 11>>}
UndoBatches == {<<10>>, <<11>>, <<11, 10>>}
HandleBlock ==
    [kind : {"ApplyBlocks"}, blocks : ApplyBatches]
        \cup [kind : {"UndoBlocks"}, blocks : UndoBatches]

\* a command in flight, with its position in the order of sending
Command(cmd, n) == [kind |-> cmd.kind, blocks |-> cmd.blocks, id |-> n]

NoCmd == [kind |-> "None", blocks |-> <<>>, id |-> 0]

\* (start_block, end_block, speed) answers of should_sync_ordhook_db
Ranges == {<<100, 105, 5>>, <<106, 110, 3>>, <<111, 111, 1>>}
NoRange == <<>>

Range(s) == {s[i] : i \in DOMAIN s}

VARIABLES
    \* ---- Service::run / Service::update_state ----
    runPc,              \* position of Service::run
    runResult,          \* Result<(), String> returned by run
    usPc,               \* position of Service::update_state
    usResult,           \* Result<(), String> returned by update_state
    usRange,            \* (start_block, end_block, speed) bound by the while-let
    policyQueries,      \* calls of should_sync_ordhook_db made
    policyGaps,         \* the Some(..) answers of should_sync_ordhook_db, in order
    policyDone,         \* should_sync_ordhook_db has answered None
    processorsStarted,  \* calls of start_inscription_indexing_processor
    pipelineCalls,      \* (start, end, speed) of each download_and_pipeline_blocks call
    pipelineFailed,     \* a download_and_pipeline_blocks call has returned Err
    \* ---- launch: consolidation and replay feed ----
    predicates,         \* the Vec<ChainhookFullSpecification> given to run
    chainhook_config,   \* the registry built by the consolidation
    bitcoin_predicates_ref, \* the predicates the replay feed evaluates blocks against
    loadCalls,          \* calls of load_predicates_from_redis made
    loadFailed,         \* load_predicates_from_redis has returned Err
    indexingRunning,    \* an inscription indexing processor may be writing the index
    rx_replayer,        \* blocks in flight to the replay feed
    rfPc,               \* position of the "Initial predicate processing" thread
    evaluated,          \* process_block_with_predicates calls: block, predicates, and
                        \* the Bitcoin registrations the lifecycle loop had received
    spawned,            \* the worker threads of run that were spawned
    \* ---- Service::replay_transfers ----
    rtPc,               \* position of Service::replay_transfers
    rtArgs,             \* its arguments start_block, end_block, block_post_processor
    rtResult,           \* Result<(), String> returned by replay_transfers
    transfersProcessors,\* sink given to each start_transfers_recomputing_processor call
    \* ---- Block pre-processor thread ----
    block_processor_in,     \* commands in flight to the worker
    block_processor_in_open,\* the sender side has not been dropped
    block_processor_out,    \* every batch sent on the processed-blocks channel
    bpPc,               \* position of the worker
    bpCmd,              \* command being handled
    bpIdx,              \* position of the for loop over blocks
    received,           \* commands the worker received, in order
    blocksDb,           \* heights with an entry in the raw-block store
    inscriptionsDb,     \* heights sequenced into the inscriptions store
    rollbackLog,        \* rollbacks attempted for the current command: <<height, ok>>
    compressFailed,     \* heights of the current command whose compression failed
    insertLog,          \* heights of the current command inserted in the raw-block store
    parseLog,           \* heights of the current command given to inscription extraction
    processLog,         \* batches given to process_blocks for the current command
    ackLog,             \* batches sent downstream for the current command
    ackedCmds,          \* the command each batch of block_processor_out was sent for
    bpHandles,          \* the worker holds its read-write index handles
    opensTried,         \* calls of open_readwrite_ordhook_dbs made
    bpOpenFailed,       \* open_readwrite_ordhook_dbs failed for the current command
    \* ---- lifecycle event loop and predicate store ----
    apiOn,              \* self.config.http_api is PredicatesApi::On
    observer_event,     \* lifecycle events in flight
    observer_event_open,\* the sender side has not been dropped
    eventsSent,         \* events the observer has sent so far
    store,              \* redis: key -> hash (field -> serialized value)
    bitcoin_scan_op,    \* every specification sent to the scan runloop
    registeredBitcoin,  \* Bitcoin PredicateRegistered events handled so far
    lastEvent,          \* the event handled last, with the store outcomes it met
    eventsHandled,      \* events the lifecycle loop has handled so far
    storeFailed,        \* some event handled so far met a store failure
    terminateDuring,    \* id of the command the block pre-processor was handling
                        \* when Terminate was handled (0: none)
    \* ---- Config::from_config_file ----
    cfPc,               \* position of Config::from_config_file
    config_file,        \* the ConfigFile it is called with
    config              \* the Result<Config, String> it returned

rtVars == <<rtPc, rtArgs, rtResult, transfersProcessors>>
rfVars == <<rx_replayer, rfPc, evaluated>>
launchVars == <<predicates, chainhook_config, bitcoin_predicates_ref, loadCalls,
                loadFailed, rfVars, spawned>>
runVars == <<runPc, runResult, usPc, usResult, usRange, policyQueries, policyGaps,
             policyDone, processorsStarted, pipelineCalls, pipelineFailed, launchVars,
             rtVars, indexingRunning>>
bpChan == <<block_processor_in, block_processor_in_open>>
bpLogs == <<rollbackLog, compressFailed, insertLog, parseLog, processLog, ackLog>>
bpHist == <<ackedCmds, bpHandles, opensTried, bpOpenFailed>>
bpVars == <<bpChan, block_processor_out, bpPc, bpCmd, bpIdx, received, blocksDb,
            inscriptionsDb, bpLogs, bpHist>>
evHist == <<eventsHandled, storeFailed, terminateDuring>>
cfVars == <<cfPc, config_file, config>>
cfgVars == <<apiOn, cfVars>>
evVars == <<cfgVars, observer_event, observer_event_open, eventsSent, store,
            bitcoin_scan_op, registeredBitcoin, lastEvent, evHist>>
vars == <<runVars, bpVars, evVars>>

(***************************************************************************)
(* Block pre-processor thread (Service::run, "Block pre-processor").       *)
(***************************************************************************)
\* insert_entry_in_blocks(height, compressed_block, true, blocks_db_rw, ctx)
insert_entry_in_blocks(db, height) == db \cup {height}

\* revert_ordhook_db_with_augmented_bitcoin_block, when it succeeds, removes
\* the block from a store.
revert_ordhook_db(db, height) == db \ {height}

\* process_blocks(&mut blocks, ..): the sequencing pass returns the batch it
\* was given (the same blocks, mutated in place).
process_blocks(blocks) == blocks

\* The chain event source sends a command.
SendCommand ==
    /\ runPc = "loop"
    /\ block_processor_in_open
    /\ Len(received) + Len(block_processor_in) < MaxCmds
    /\ \E cmd \in HandleBlock :
           block_processor_in' =
               Append(block_processor_in,
                      Command(cmd, Len(received) + Len(block_processor_in) + 1))
    /\ UNCHANGED <<block_processor_in_open, block_processor_out, bpPc, bpCmd, bpIdx,
                   received, blocksDb, inscriptionsDb, bpLogs>>
    /\ UNCHANGED <<runVars, evVars>>
    /\ UNCHANGED bpHist

\* The sender side of block_processor_in is dropped.
DropCommandSender ==
    /\ block_processor_in_open
    /\ block_processor_in_open' = FALSE
    /\ UNCHANGED <<block_processor_in, block_processor_out, bpPc, bpCmd, bpIdx,
                   received, blocksDb, inscriptionsDb, bpLogs>>
    /\ UNCHANGED <<runVars, evVars>>
    /\ UNCHANGED bpHist

\* BpRecv taking the command sent last instead of the one sent first.
BpRecv_Lifo ==
    /\ bpPc = "recv"
    /\ block_processor_in # <<>>
    /\ bpCmd' = block_processor_in[Len(block_processor_in)]
    /\ block_processor_in' = SubSeq(block_processor_in, 1, Len(block_processor_in) - 1)
    /\ received' = Append(received, block_processor_in[Len(block_processor_in)])
    /\ bpIdx' = 1
    /\ rollbackLog' = <<>>
    /\ compressFailed' = {}
    /\ insertLog' = <<>>
    /\ parseLog' = <<>>
    /\ processLog' = <<>>
    /\ ackLog' = <<>>
    /\ bpPc' = "open"
    /\ UNCHANGED <<block_processor_in_open, block_processor_out, blocksDb,
                   inscriptionsDb>>
    /\ UNCHANGED <<runVars, evVars>>
    /\ bpOpenFailed' = FALSE
    /\ UNCHANGED <<ackedCmds, bpHandles, opensTried>>

\* block_processor_in_rx.recv(): Ok(cmd)
BpRecv ==
    /\ bpPc = "recv"
    /\ block_processor_in # <<>>
    /\ bpCmd' = Head(block_processor_in)
    /\ block_processor_in' = Tail(block_processor_in)
    /\ received' = Append(received, Head(block_processor_in))
    /\ bpIdx' = 1
    /\ rollbackLog' = <<>>
    /\ compressFailed' = {}
    /\ insertLog' = <<>>
    /\ parseLog' = <<>>
    /\ processLog' = <<>>
    /\ ackLog' = <<>>
    /\ bpPc' = "open"
    /\ UNCHANGED <<block_processor_in_open, block_processor_out, blocksDb,
                   inscriptionsDb>>
    /\ UNCHANGED <<runVars, evVars>>
    /\ bpOpenFailed' = FALSE
    /\ UNCHANGED <<ackedCmds, bpHandles, opensTried>>

\* block_processor_in_rx.recv(): Err(e) => break
BpRecvClosed ==
    /\ bpPc = "recv"
    /\ block_processor_in = <<>>
    /\ ~block_processor_in_open
    /\ bpPc' = "stopped"
    /\ UNCHANGED <<bpChan, block_processor_out, bpCmd, bpIdx, received, blocksDb,
                   inscriptionsDb, bpLogs>>
    /\ UNCHANGED <<runVars, evVars>>
    /\ UNCHANGED bpHist

\* BpOpen leaving the loop when the handles cannot be opened.
BpOpen_FailureStops ==
    /\ bpPc = "open"
    /\ opensTried' = opensTried + 1
    /\ \E ok \in BOOLEAN :
           /\ bpPc' = IF ~ok THEN "stopped"
                      ELSE IF bpCmd.kind = "UndoBlocks" THEN "undo" ELSE "apply"
           /\ bpHandles' = ok
           /\ bpOpenFailed' = ~ok
    /\ UNCHANGED ackedCmds
    /\ UNCHANGED <<bpChan, block_processor_out, bpCmd, bpIdx, received, blocksDb,
                   inscriptionsDb, bpLogs>>
    /\ UNCHANGED <<runVars, evVars>>

\* open_readwrite_ordhook_dbs: Ok(dbs) enters the match on the command,
\* Err(e) => continue (back to recv, nothing sent).
BpOpen ==
    /\ bpPc = "open"
    /\ opensTried' = opensTried + 1
    /\ \E ok \in BOOLEAN :
           /\ bpPc' = IF ~ok THEN "recv"
                      ELSE IF bpCmd.kind = "UndoBlocks" THEN "undo" ELSE "apply"
           /\ bpHandles' = ok
           /\ bpOpenFailed' = ~ok
    /\ UNCHANGED ackedCmds
    /\ UNCHANGED <<bpChan, block_processor_out, bpCmd, bpIdx, received, blocksDb,
                   inscriptionsDb, bpLogs>>
    /\ UNCHANGED <<runVars, evVars>>

\* HandleBlock::UndoBlocks: one iteration of `for block in blocks.iter_mut()`
BpUndoBlock ==
    /\ bpPc = "undo"
    /\ bpIdx <= Len(bpCmd.blocks)
    /\ \E ok \in BOOLEAN :
         LET height == bpCmd.blocks[bpIdx] IN
           /\ rollbackLog' = Append(rollbackLog, <<height, ok>>)
           /\ blocksDb' = IF ok THEN revert_ordhook_db(blocksDb, height) ELSE blocksDb
           /\ inscriptionsDb' = IF ok THEN revert_ordhook_db(inscriptionsDb, height)
                                ELSE inscriptionsDb
    /\ bpIdx' = bpIdx + 1
    /\ UNCHANGED <<bpChan, block_processor_out, bpPc, bpCmd, received,
                   compressFailed, insertLog, parseLog, processLog, ackLog>>
    /\ UNCHANGED <<runVars, evVars>>
    /\ UNCHANGED bpHist

\* HandleBlock::UndoBlocks: block_processor_out_tx.send(blocks)
BpUndoSend ==
    /\ bpPc = "undo"
    /\ bpIdx > Len(bpCmd.blocks)
    /\ block_processor_out' = Append(block_processor_out, bpCmd.blocks)
    /\ ackLog' = Append(ackLog, bpCmd.blocks)
    /\ ackedCmds' = Append(ackedCmds, bpCmd.id)
    /\ bpHandles' = FALSE
    /\ bpPc' = "recv"
    /\ UNCHANGED <<opensTried, bpOpenFailed>>
    /\ UNCHANGED <<bpChan, bpCmd, bpIdx, received, blocksDb, inscriptionsDb,
                   rollbackLog, compressFailed, insertLog, parseLog, processLog>>
    /\ UNCHANGED <<runVars, evVars>>

\* BpApplyBlock without the `continue` of the compression failure: the block
\* is not inserted but is still given to inscription extraction.
BpApplyBlock_NoContinue ==
    /\ bpPc = "apply"
    /\ bpIdx <= Len(bpCmd.blocks)
    /\ \E compressed \in BOOLEAN :
         LET height == bpCmd.blocks[bpIdx] IN
           /\ parseLog' = Append(parseLog, height)
           /\ IF compressed
              THEN /\ blocksDb' = insert_entry_in_blocks(blocksDb, height)
                   /\ insertLog' = Append(insertLog, height)
                   /\ UNCHANGED compressFailed
              ELSE /\ compressFailed' = compressFailed \cup {height}
                   /\ UNCHANGED <<blocksDb, insertLog>>
    /\ bpIdx' = bpIdx + 1
    /\ UNCHANGED <<bpChan, block_processor_out, bpPc, bpCmd, received,
                   inscriptionsDb, rollbackLog, processLog, ackLog>>
    /\ UNCHANGED <<runVars, evVars>>
    /\ UNCHANGED bpHist

\* HandleBlock::ApplyBlocks: one iteration of `for block in blocks.iter_mut()`.
\* LazyBlock::from_standardized_block: Err(e) => continue; Ok => insert, flush,
\* parse_inscriptions_in_standardized_block.
BpApplyBlock ==
    /\ bpPc = "apply"
    /\ bpIdx <= Len(bpCmd.blocks)
    /\ \E compressed \in BOOLEAN :
         LET height == bpCmd.blocks[bpIdx] IN
           IF compressed
           THEN /\ blocksDb' = insert_entry_in_blocks(blocksDb, height)
                /\ insertLog' = Append(insertLog, height)
                /\ parseLog' = Append(parseLog, height)
                /\ UNCHANGED compressFailed
           ELSE /\ compressFailed' = compressFailed \cup {height}
                /\ UNCHANGED <<blocksDb, insertLog, parseLog>>
    /\ bpIdx' = bpIdx + 1
    /\ UNCHANGED <<bpChan, block_processor_out, bpPc, bpCmd, received,
                   inscriptionsDb, rollbackLog, processLog, ackLog>>
    /\ UNCHANGED <<runVars, evVars>>
    /\ UNCHANGED bpHist

\* BpApplySequence running the pass when the last block of the batch has
\* still to go through the per-block loop.
BpApplySequence_BeforeLastBlock ==
    /\ bpPc = "apply"
    /\ bpIdx >= Len(bpCmd.blocks)
    /\ \E opened \in BOOLEAN :
           IF opened
           THEN /\ processLog' = Append(processLog, bpCmd.blocks)
                /\ inscriptionsDb' = inscriptionsDb \cup Range(bpCmd.blocks)
                /\ bpPc' = "send"
                /\ UNCHANGED bpHandles
           ELSE /\ bpPc' = "panicked"
                /\ bpHandles' = FALSE
                /\ UNCHANGED <<processLog, inscriptionsDb>>
    /\ UNCHANGED <<ackedCmds, opensTried, bpOpenFailed>>
    /\ UNCHANGED <<bpChan, block_processor_out, bpCmd, bpIdx, received, blocksDb,
                   rollbackLog, compressFailed, insertLog, parseLog, ackLog>>
    /\ UNCHANGED <<runVars, evVars>>

\* HandleBlock::ApplyBlocks, after the for loop:
\* open_readonly_ordhook_db_conn(..).expect(..), SequenceCursor::new, then
\* process_blocks over the whole batch.  A failed open panics the thread,
\* which drops its handles.
BpApplySequence ==
    /\ bpPc = "apply"
    /\ bpIdx > Len(bpCmd.blocks)
    /\ \E opened \in BOOLEAN :
           IF opened
           THEN /\ processLog' = Append(processLog, bpCmd.blocks)
                /\ inscriptionsDb' = inscriptionsDb \cup Range(bpCmd.blocks)
                /\ bpPc' = "send"
                /\ UNCHANGED bpHandles
           ELSE /\ bpPc' = "panicked"
                /\ bpHandles' = FALSE
                /\ UNCHANGED <<processLog, inscriptionsDb>>
    /\ UNCHANGED <<ackedCmds, opensTried, bpOpenFailed>>
    /\ UNCHANGED <<bpChan, block_processor_out, bpCmd, bpIdx, received, blocksDb,
                   rollbackLog, compressFailed, insertLog, parseLog, ackLog>>
    /\ UNCHANGED <<runVars, evVars>>

\* HandleBlock::ApplyBlocks: block_processor_out_tx.send(updated_blocks), the
\* batch process_blocks returned; the iteration ends and drops the handles.
BpApplySend ==
    /\ bpPc = "send"
    /\ LET updated_blocks == process_blocks(processLog[Len(processLog)]) IN
           /\ block_processor_out' = Append(block_processor_out, updated_blocks)
           /\ ackLog' = Append(ackLog, updated_blocks)
    /\ ackedCmds' = Append(ackedCmds, bpCmd.id)
    /\ bpHandles' = FALSE
    /\ bpPc' = "recv"
    /\ UNCHANGED <<opensTried, bpOpenFailed>>
    /\ UNCHANGED <<bpChan, bpCmd, bpIdx, received, blocksDb, inscriptionsDb,
                   rollbackLog, compressFailed, insertLog, parseLog, processLog>>
    /\ UNCHANGED <<runVars, evVars>>

BlockPreProcessor ==
    \/ BpRecv
    \/ BpRecvClosed
    \/ BpOpen
    \/ BpUndoBlock
    \/ BpUndoSend
    \/ BpApplyBlock
    \/ BpApplySequence
    \/ BpApplySend

(***************************************************************************)
(* Service::update_state and the return of Service::run from it.           *)
(***************************************************************************)
\* UpdateStateQuery with a None answer that does not leave the loop: the
\* policy is queried again.
UpdateStateQuery_NoneLoops ==
    /\ usPc = "query"
    /\ policyQueries' = policyQueries + 1
    /\ \/ \E r \in Ranges :
             /\ Len(policyGaps) < MaxGaps
             /\ policyGaps' = Append(policyGaps, r)
             /\ usRange' = r
             /\ usPc' = "start_processor"
             /\ UNCHANGED <<usResult, policyDone>>
       \/ /\ policyDone' = TRUE
          /\ policyQueries < MaxGaps + 1
          /\ usPc' = "query"
          /\ UNCHANGED <<policyGaps, usRange, usResult>>
       \/ /\ usPc' = "returned"
          /\ usResult' = "Err(should_sync_ordhook_db)"
          /\ UNCHANGED <<policyGaps, usRange, policyDone>>
    /\ UNCHANGED <<runPc, runResult, processorsStarted, pipelineCalls, pipelineFailed>>
    /\ UNCHANGED <<bpVars, evVars>>
    /\ UNCHANGED <<launchVars, rtVars, indexingRunning>>

\* `while let Some((start_block, end_block, speed)) = should_sync_ordhook_db(..)?`
\* Some(..) enters the loop body, None leaves the loop and returns Ok(()),
\* Err(e) is returned by `?`.
UpdateStateQuery ==
    /\ usPc = "query"
    /\ policyQueries' = policyQueries + 1
    /\ \/ \E r \in Ranges :
             /\ Len(policyGaps) < MaxGaps
             /\ policyGaps' = Append(policyGaps, r)
             /\ usRange' = r
             /\ usPc' = "start_processor"
             /\ UNCHANGED <<usResult, policyDone>>
       \/ /\ policyDone' = TRUE
          /\ usPc' = "returned"
          /\ usResult' = "Ok"
          /\ UNCHANGED <<policyGaps, usRange>>
       \/ /\ usPc' = "returned"
          /\ usResult' = "Err(should_sync_ordhook_db)"
          /\ UNCHANGED <<policyGaps, usRange, policyDone>>
    /\ UNCHANGED <<runPc, runResult, processorsStarted, pipelineCalls, pipelineFailed>>
    /\ UNCHANGED <<bpVars, evVars>>
    /\ UNCHANGED <<launchVars, rtVars, indexingRunning>>

\* start_inscription_indexing_processor(&self.config, &self.ctx, ..): the
\* processor writes the index with the blocks the pipeline gives it
UpdateStateStartProcessor ==
    /\ usPc = "start_processor"
    /\ processorsStarted' = processorsStarted + 1
    /\ indexingRunning' = TRUE
    /\ usPc' = "pipeline"
    /\ UNCHANGED <<runPc, runResult, usResult, usRange, policyQueries, policyGaps,
                   policyDone, pipelineCalls, pipelineFailed>>
    /\ UNCHANGED <<bpVars, evVars>>
    /\ UNCHANGED <<launchVars, rtVars>>

\* UpdateStatePipeline with the fixed speed of replay_transfers instead of
\* the speed the policy reported.
UpdateStatePipeline_FixedSpeed ==
    /\ usPc = "pipeline"
    /\ pipelineCalls' = Append(pipelineCalls, <<usRange[1], usRange[2], 100>>)
    /\ \E ok \in BOOLEAN :
           IF ok
           THEN /\ usPc' = "query"
                /\ indexingRunning' = FALSE
                /\ UNCHANGED <<usResult, pipelineFailed>>
           ELSE /\ usPc' = "returned"
                /\ usResult' = "Err(download_and_pipeline_blocks)"
                /\ pipelineFailed' = TRUE
                /\ indexingRunning' \in BOOLEAN
    /\ UNCHANGED <<runPc, runResult, usRange, policyQueries, policyGaps, policyDone,
                   processorsStarted>>
    /\ UNCHANGED <<bpVars, evVars>>
    /\ UNCHANGED <<launchVars, rtVars>>

\* download_and_pipeline_blocks(.., start_block, end_block, .., speed, ..).await?
\* Ok(()) is returned once the processor has ended; after an Err the
\* processor may still be running.
UpdateStatePipeline ==
    /\ usPc = "pipeline"
    /\ pipelineCalls' = Append(pipelineCalls, <<usRange[1], usRange[2], usRange[3]>>)
    /\ \E ok \in BOOLEAN :
           IF ok
           THEN /\ usPc' = "query"
                /\ indexingRunning' = FALSE
                /\ UNCHANGED <<usResult, pipelineFailed>>
           ELSE /\ usPc' = "returned"
                /\ usResult' = "Err(download_and_pipeline_blocks)"
                /\ pipelineFailed' = TRUE
                /\ indexingRunning' \in BOOLEAN
    /\ UNCHANGED <<runPc, runResult, usRange, policyQueries, policyGaps, policyDone,
                   processorsStarted>>
    /\ UNCHANGED <<bpVars, evVars>>
    /\ UNCHANGED <<launchVars, rtVars>>

UpdateState ==
    \/ UpdateStateQuery
    \/ UpdateStateStartProcessor
    \/ UpdateStatePipeline

\* RunAfterUpdateState that does not await update_state: run goes on to start
\* its workers while the catch-up is still running.
RunAfterUpdateState_NotAwaited ==
    /\ runPc = "update_state"
    /\ IF usPc = "returned" /\ usResult # "Ok"
       THEN /\ runPc' = "returned"
            /\ runResult' = usResult
       ELSE /\ runPc' = "spawn"
            /\ UNCHANGED runResult
    /\ UNCHANGED <<usPc, usResult, usRange, policyQueries, policyGaps, policyDone,
                   processorsStarted, pipelineCalls, pipelineFailed>>
    /\ UNCHANGED <<bpVars, evVars>>
    /\ UNCHANGED <<launchVars, rtVars, indexingRunning>>

\* RunAfterUpdateState without the `?`: the result of update_state is dropped.
RunAfterUpdateState_ErrorDropped ==
    /\ runPc = "update_state"
    /\ usPc = "returned"
    /\ runPc' = "spawn"
    /\ UNCHANGED runResult
    /\ UNCHANGED <<usPc, usResult, usRange, policyQueries, policyGaps, policyDone,
                   processorsStarted, pipelineCalls, pipelineFailed>>
    /\ UNCHANGED <<bpVars, evVars>>
    /\ UNCHANGED <<launchVars, rtVars, indexingRunning>>

\* `self.update_state(..).await?` in Service::run: an Err is returned from run.
RunAfterUpdateState ==
    /\ runPc = "update_state"
    /\ usPc = "returned"
    /\ IF usResult = "Ok"
       THEN /\ runPc' = "spawn"
            /\ UNCHANGED runResult
       ELSE /\ runPc' = "returned"
            /\ runResult' = usResult
    /\ UNCHANGED <<usPc, usResult, usRange, policyQueries, policyGaps, policyDone,
                   processorsStarted, pipelineCalls, pipelineFailed>>
    /\ UNCHANGED <<bpVars, evVars>>
    /\ UNCHANGED <<launchVars, rtVars, indexingRunning>>

\* the worker threads run spawns, by thread name; the HTTP front door only
\* when self.config.http_api is PredicatesApi::On
Workers(http_api) ==
    {"Initial predicate processing", "Bitcoin scan runloop", "Block pre-processor"}
        \cup (IF http_api THEN {"HTTP Predicate API"} ELSE {})

\* RunSpawnWorkers that also sends a Bitcoin predicate of the consolidated
\* registry to the scan runloop.
RunSpawnWorkers_ScansLaunch ==
    /\ runPc = "spawn"
    /\ \E scan_ok, bp_ok \in BOOLEAN :
       \E api_ok \in (IF apiOn THEN BOOLEAN ELSE {FALSE}) :
           IF ~scan_ok
           THEN /\ runPc' = "panicked"
                /\ UNCHANGED <<spawned, bpPc>>
           ELSE /\ runPc' = "loop"
                /\ spawned' = spawned \cup {"Bitcoin scan runloop"}
                                  \cup (IF api_ok THEN {"HTTP Predicate API"} ELSE {})
                                  \cup (IF bp_ok THEN {"Block pre-processor"} ELSE {})
                /\ bpPc' = IF bp_ok THEN "recv" ELSE bpPc
    /\ bitcoin_scan_op' =
           IF chainhook_config.bitcoin_chainhooks = {}
           THEN bitcoin_scan_op
           ELSE Append(bitcoin_scan_op,
                       CHOOSE s \in chainhook_config.bitcoin_chainhooks : TRUE)
    /\ UNCHANGED <<runResult, usPc, usResult, usRange, policyQueries, policyGaps,
                   policyDone, processorsStarted, pipelineCalls, pipelineFailed>>
    /\ UNCHANGED <<bpChan, block_processor_out, bpCmd, bpIdx, received, blocksDb,
                   inscriptionsDb, bpLogs>>
    /\ UNCHANGED <<predicates, chainhook_config, bitcoin_predicates_ref, loadCalls,
                   loadFailed, rfVars, rtVars, indexingRunning>>
    /\ UNCHANGED bpHist
    /\ UNCHANGED <<cfgVars, observer_event, observer_event_open, eventsSent, store,
                   registeredBitcoin, lastEvent>>
    /\ UNCHANGED evHist

\* Service::run after catch-up: the scan runloop, the HTTP API, the event
\* observer and the block pre-processor are started, then the lifecycle loop
\* is entered.  The scan runloop spawn is followed by
\* .expect("unable to spawn thread"); the results of the HTTP API spawn and of
\* the block pre-processor spawn are dropped (`let _ =`), so run goes on
\* when they fail.
RunSpawnWorkers ==
    /\ runPc = "spawn"
    /\ \E scan_ok, bp_ok \in BOOLEAN :
       \E api_ok \in (IF apiOn THEN BOOLEAN ELSE {FALSE}) :
           IF ~scan_ok
           THEN /\ runPc' = "panicked"
                /\ UNCHANGED <<spawned, bpPc>>
           ELSE /\ runPc' = "loop"
                /\ spawned' = spawned \cup {"Bitcoin scan runloop"}
                                  \cup (IF api_ok THEN {"HTTP Predicate API"} ELSE {})
                                  \cup (IF bp_ok THEN {"Block pre-processor"} ELSE {})
                /\ bpPc' = IF bp_ok THEN "recv" ELSE bpPc
    /\ UNCHANGED <<runResult, usPc, usResult, usRange, policyQueries, policyGaps,
                   policyDone, processorsStarted, pipelineCalls, pipelineFailed>>
    /\ UNCHANGED <<bpChan, block_processor_out, bpCmd, bpIdx, received, blocksDb,
                   inscriptionsDb, bpLogs>>
    /\ UNCHANGED <<predicates, chainhook_config, bitcoin_predicates_ref, loadCalls,
                   loadFailed, rfVars, rtVars, indexingRunning>>
    /\ UNCHANGED bpHist
    /\ UNCHANGED evVars

(***************************************************************************)
(* Service::replay_transfers.                                              *)
(***************************************************************************)
\* arguments of replay_transfers: start_block, end_block and whether a
\* block_post_processor sink is given
ReplayArgs == [start_block : 100..104, end_block : 103..108, sink : BOOLEAN]
NoArgs == [start_block |-> 0, end_block |-> 0, sink |-> FALSE]

\* start_transfers_recomputing_processor(&self.config, &self.ctx, block_post_processor)
ReplayTransfersStartProcessor ==
    /\ rtPc = "call"
    /\ transfersProcessors' = Append(transfersProcessors, rtArgs.sink)
    /\ rtPc' = "pipeline"
    /\ UNCHANGED <<rtArgs, rtResult>>
    /\ UNCHANGED <<runPc, runResult, usPc, usResult, usRange, policyQueries, policyGaps,
                   policyDone, processorsStarted, pipelineCalls, pipelineFailed,
                   launchVars, indexingRunning>>
    /\ UNCHANGED <<bpVars, evVars>>

\* ReplayTransfersPipeline going back to start a processor after a call that
\* succeeded, as the loop of update_state does.
ReplayTransfersPipeline_Loops ==
    /\ rtPc = "pipeline"
    /\ pipelineCalls' =
           Append(pipelineCalls, <<rtArgs.start_block, rtArgs.end_block, 100>>)
    /\ \E ok \in BOOLEAN :
           IF ok
           THEN /\ rtPc' = IF Len(pipelineCalls) < MaxGaps THEN "call" ELSE "returned"
                /\ rtResult' = IF Len(pipelineCalls) < MaxGaps THEN rtResult ELSE "Ok"
                /\ UNCHANGED pipelineFailed
           ELSE /\ rtPc' = "returned"
                /\ rtResult' = "Err(download_and_pipeline_blocks)"
                /\ pipelineFailed' = TRUE
    /\ UNCHANGED <<rtArgs, transfersProcessors>>
    /\ UNCHANGED <<runPc, runResult, usPc, usResult, usRange, policyQueries, policyGaps,
                   policyDone, processorsStarted, launchVars, indexingRunning>>
    /\ UNCHANGED <<bpVars, evVars>>

\* download_and_pipeline_blocks(.., start_block, end_block, .., 100, ..).await?
\* then Ok(())
ReplayTransfersPipeline ==
    /\ rtPc = "pipeline"
    /\ pipelineCalls' =
           Append(pipelineCalls, <<rtArgs.start_block, rtArgs.end_block, 100>>)
    /\ \E ok \in BOOLEAN :
           IF ok
           THEN /\ rtPc' = "returned"
                /\ rtResult' = "Ok"
                /\ UNCHANGED pipelineFailed
           ELSE /\ rtPc' = "returned"
                /\ rtResult' = "Err(download_and_pipeline_blocks)"
                /\ pipelineFailed' = TRUE
    /\ UNCHANGED <<rtArgs, transfersProcessors>>
    /\ UNCHANGED <<runPc, runResult, usPc, usResult, usRange, policyQueries, policyGaps,
                   policyDone, processorsStarted, launchVars, indexingRunning>>
    /\ UNCHANGED <<bpVars, evVars>>

ReplayTransfers ==
    \/ ReplayTransfersStartProcessor
    \/ ReplayTransfersPipeline

(***************************************************************************)
(* Predicate store (redis) and its helpers.                                *)
(***************************************************************************)
\* ChainhookSpecification: uuid, chain scope, matching criteria
PredicateSpecs ==
    {[uuid |-> "A", chain |-> "Bitcoin", criteria |-> 1],
     [uuid |-> "A", chain |-> "Bitcoin", criteria |-> 2],
     [uuid |-> "B", chain |-> "Stacks", criteria |-> 1]}
NoSpec == [uuid |-> "", chain |-> "", criteria |-> 0]

\* spec.key()
key(spec) == "predicate:" \o spec.uuid
Keys == {key(spec) : spec \in PredicateSpecs}

\* PredicateStatus; the data of Scanning and Streaming is left at zero and
\* the reason of Interrupted empty
PredicateStatus ==
    {"Scanning", "Streaming", "InitialScanCompleted", "Interrupted", "Disabled"}
None == "None"

\* json!(status).to_string() under #[serde(rename_all = "snake_case")]
SerializeStatus(status) ==
    CASE status = "Scanning" ->
             "{\"scanning\":{\"number_of_blocks_to_scan\":0,"
                 \o "\"number_of_blocks_scanned\":0,\"number_of_blocks_sent\":0,"
                 \o "\"current_block_height\":0}}"
      [] status = "Streaming" ->
             "{\"streaming\":{\"last_occurence\":0,\"last_evaluation\":0}}"
      [] status = "InitialScanCompleted" -> "\"initial_scan_completed\""
      [] status = "Interrupted" -> "{\"interrupted\":\"\"}"
      [] status = "Disabled" -> "\"disabled\""

\* serde_json::from_str::<PredicateStatus>(payload): Ok(data) => Some(data),
\* Err(_) => None
DeserializeStatus(payload) ==
    IF \E status \in PredicateStatus : SerializeStatus(status) = payload
    THEN CHOOSE status \in PredicateStatus : SerializeStatus(status) = payload
    ELSE None

\* json!(spec).to_string()
SerializeSpec(spec) ==
    "{\"chain\":\"" \o spec.chain \o "\",\"uuid\":\"" \o spec.uuid
        \o "\",\"criteria\":" \o ToString(spec.criteria) \o "}"

\* a key with no hash has no record
NoRecord == <<>>

\* redis HSET key field value: sets one field, keeps the others
HSet(st, k, field, value) == [st EXCEPT ![k] = (field :> value) @@ @]

\* Del removing the status field only (HDEL key "status")
Del_StatusOnly(st, k) ==
    [st EXCEPT ![k] = [f \in (DOMAIN @) \ {"status"} |-> @[f]]]

\* redis DEL key
Del(st, k) == [st EXCEPT ![k] = NoRecord]

\* update_predicate_status that keeps a status already present (HSETNX)
update_predicate_status_KeepExisting(st, predicate_key, status, ok) ==
    IF ok /\ "status" \notin DOMAIN st[predicate_key]
    THEN [st EXCEPT ![predicate_key] = ("status" :> SerializeStatus(status)) @@ @]
    ELSE st

\* update_predicate_status: hset "status"; an Err is logged and nothing is written
update_predicate_status(st, predicate_key, status, ok) ==
    IF ok THEN HSet(st, predicate_key, "status", SerializeStatus(status)) ELSE st

\* update_predicate_spec: hset "specification"; an Err is logged and nothing is written
update_predicate_spec(st, predicate_key, spec, ok) ==
    IF ok THEN HSet(st, predicate_key, "specification", SerializeSpec(spec)) ELSE st

\* retrieve_predicate_status: hget "status", then deserialize; a missing field
\* or a payload that does not parse gives None
retrieve_predicate_status(st, predicate_key) ==
    IF "status" \in DOMAIN st[predicate_key]
    THEN DeserializeStatus(st[predicate_key].status)
    ELSE None

(***************************************************************************)
(* Launch: create_and_consolidate_chainhook_config_with_predicates and the *)
(* head of Service::run.                                                   *)
(***************************************************************************)
\* serde_json::from_str of a persisted specification gives Ok(spec)
SpecParses(payload) == \E spec \in PredicateSpecs : SerializeSpec(spec) = payload

\* the specification a payload that parses stands for
DeserializeSpec(payload) ==
    CHOOSE spec \in PredicateSpecs : SerializeSpec(spec) = payload

\* config.network.bitcoin_network, config.network.stacks_network
bitcoin_network == "mainnet"
stacks_network == "mainnet"

\* ChainhookFullSpecification: uuid, chain scope, and the matching criteria
\* it defines for each network it covers
FullA == [uuid |-> "A", chain |-> "Bitcoin",
          networks |-> ("mainnet" :> 1 @@ "testnet" :> 2)]
FullA2 == [uuid |-> "A", chain |-> "Bitcoin", networks |-> ("mainnet" :> 2)]
FullB == [uuid |-> "B", chain |-> "Stacks", networks |-> ("mainnet" :> 1)]
FullATestnet == [uuid |-> "A", chain |-> "Bitcoin", networks |-> ("testnet" :> 1)]
FullBTestnet == [uuid |-> "B", chain |-> "Stacks", networks |-> ("testnet" :> 2)]

\* the lists of specifications run is launched with
LaunchLists ==
    {<<>>, <<FullA>>, <<FullB>>, <<FullA, FullB>>, <<FullB, FullA>>,
     <<FullATestnet>>, <<FullATestnet, FullB>>, <<FullA, FullBTestnet>>,
     <<FullB, FullATestnet, FullA2>>, <<FullA, FullA2>>}

\* contents of the predicate store when run is launched
PersistedStores ==
    {[k \in Keys |-> NoRecord],
     ("predicate:A" :> [specification |-> SerializeSpec([uuid |-> "A", chain |-> "Bitcoin",
                                                         criteria |-> 1]),
                        status |-> "\"disabled\""]
        @@ "predicate:B" :> NoRecord),
     ("predicate:A" :> [specification |-> SerializeSpec([uuid |-> "A", chain |-> "Bitcoin",
                                                         criteria |-> 2]),
                        status |-> "\"initial_scan_completed\""]
        @@ "predicate:B" :> [specification |-> SerializeSpec([uuid |-> "B",
                                                              chain |-> "Stacks",
                                                              criteria |-> 1]),
                             status |-> "\"disabled\""]),
     ("predicate:A" :> [status |-> "\"disabled\""]
        @@ "predicate:B" :> [specification |-> SerializeSpec([uuid |-> "B",
                                                              chain |-> "Stacks",
                                                              criteria |-> 1]),
                             status |-> "\"disabled\""])}

\* ChainhookConfig::new()
ChainhookConfig_new == [bitcoin_chainhooks |-> {}, stacks_chainhooks |-> {}]

\* every specification of a registry
Registered(registry) == registry.bitcoin_chainhooks \cup registry.stacks_chainhooks

\* chainhook_config.register_specification(predicate): the registry is keyed
\* by uuid, a specification with a uuid already present takes its place
register_specification(registry, spec) ==
    LET others == [bitcoin_chainhooks |->
                       {s \in registry.bitcoin_chainhooks : s.uuid # spec.uuid},
                   stacks_chainhooks |->
                       {s \in registry.stacks_chainhooks : s.uuid # spec.uuid}]
    IN  IF spec.chain = "Bitcoin"
        THEN [others EXCEPT !.bitcoin_chainhooks = @ \cup {spec}]
        ELSE [others EXCEPT !.stacks_chainhooks = @ \cup {spec}]

\* the network of the pair a full specification is selected for
SelectedNetwork(networks, full) ==
    IF full.chain = "Bitcoin" THEN networks[1] ELSE networks[2]

\* register_full_specification gives Ok(spec) exactly when the specification
\* covers the network selected for its chain
Accepted(networks, full) == SelectedNetwork(networks, full) \in DOMAIN full.networks

\* the specification selected for the network
Selected(networks, full) ==
    [uuid |-> full.uuid, chain |-> full.chain,
     criteria |-> full.networks[SelectedNetwork(networks, full)]]

\* chainhook_config.register_full_specification((bitcoin_network, stacks_network), predicate):
\* Ok(spec) registers the selected specification, Err(e) registers nothing
register_full_specification(registry, networks, full) ==
    IF Accepted(networks, full)
    THEN register_specification(registry, Selected(networks, full))
    ELSE registry

\* load_predicates_from_redis(&config, &ctx), Ok case: the specification of
\* every record whose specification and status both parse
load_predicates_from_redis(st) ==
    {DeserializeSpec(st[k].specification) :
        k \in {k2 \in DOMAIN st :
                  /\ DOMAIN st[k2] = {"specification", "status"}
                  /\ SpecParses(st[k2].specification)
                  /\ DeserializeStatus(st[k2].status) # None}}

\* `for (predicate, _status) in registered_predicates.into_iter()`
RECURSIVE RegisterPersisted(_, _)
RegisterPersisted(registry, registered_predicates) ==
    IF registered_predicates = {}
    THEN registry
    ELSE LET predicate == CHOOSE p \in registered_predicates : TRUE
         IN  RegisterPersisted(register_specification(registry, predicate),
                               registered_predicates \ {predicate})

\* `for predicate in predicates.into_iter()`
RECURSIVE RegisterLaunch(_, _, _)
\* RegisterLaunch leaving the loop at the first rejected specification.
RECURSIVE RegisterLaunch_StopsAtRejected(_, _, _)
RegisterLaunch_StopsAtRejected(registry, networks, launch) ==
    IF launch = <<>> \/ ~Accepted(networks, Head(launch))
    THEN registry
    ELSE RegisterLaunch_StopsAtRejected(
             register_full_specification(registry, networks, Head(launch)),
             networks, Tail(launch))

RegisterLaunch(registry, networks, launch) ==
    IF launch = <<>>
    THEN registry
    ELSE RegisterLaunch(register_full_specification(registry, networks, Head(launch)),
                        networks, Tail(launch))

\* config.is_http_api_enabled()
is_http_api_enabled(http_api) == http_api

\* LoadsPersisted without `predicates.is_empty()`: the store is read whenever
\* the API is enabled.
LoadsPersisted_ApiOnly(launch, http_api) == is_http_api_enabled(http_api)

\* `if predicates.is_empty() && config.is_http_api_enabled()`
LoadsPersisted(launch, http_api) == launch = <<>> /\ is_http_api_enabled(http_api)

\* The consolidation loading the persisted predicates whenever the API is
\* enabled, whatever was supplied at launch.
create_and_consolidate_LoadsAlways(launch, http_api, loaded) ==
    LET registered_predicates ==
            IF is_http_api_enabled(http_api) /\ loaded.ok
            THEN loaded.predicates
            ELSE {}
    IN  RegisterLaunch(RegisterPersisted(ChainhookConfig_new, registered_predicates),
                       <<bitcoin_network, stacks_network>>, launch)

\* create_and_consolidate_chainhook_config_with_predicates(predicates, config, ctx);
\* loaded is the result of load_predicates_from_redis, an Err gives vec![]
create_and_consolidate_chainhook_config_with_predicates(launch, http_api, loaded) ==
    LET registered_predicates ==
            IF LoadsPersisted(launch, http_api) /\ loaded.ok
            THEN loaded.predicates
            ELSE {}
    IN  RegisterLaunch(RegisterPersisted(ChainhookConfig_new, registered_predicates),
                       <<bitcoin_network, stacks_network>>, launch)

\* Service::run up to `self.update_state(Some(tx_replayer.clone())).await`:
\* the registry is consolidated, the "Initial predicate processing" thread is
\* spawned with the Bitcoin predicates of a clone of it
\* (.expect("unable to spawn thread") panics when the spawn fails),
\* update_state is called.
RunCallUpdateState ==
    /\ runPc = "start"
    /\ \E load_ok \in (IF LoadsPersisted(predicates, apiOn) THEN BOOLEAN ELSE {TRUE}) :
         LET loaded == [ok |-> load_ok, predicates |-> load_predicates_from_redis(store)]
         IN  /\ chainhook_config' =
                    create_and_consolidate_chainhook_config_with_predicates(
                        predicates, apiOn, loaded)
             /\ loadCalls' = loadCalls + (IF LoadsPersisted(predicates, apiOn) THEN 1 ELSE 0)
             /\ loadFailed' = ~load_ok
    /\ \E feed_ok \in BOOLEAN :
           IF feed_ok
           THEN /\ bitcoin_predicates_ref' = chainhook_config'.bitcoin_chainhooks
                /\ rfPc' = "recv"
                /\ spawned' = spawned \cup {"Initial predicate processing"}
                /\ runPc' = "update_state"
                /\ usPc' = "query"
           ELSE /\ runPc' = "panicked"
                /\ UNCHANGED <<bitcoin_predicates_ref, rfPc, spawned, usPc>>
    /\ UNCHANGED <<runResult, usResult, usRange, policyQueries, policyGaps, policyDone,
                   processorsStarted, pipelineCalls, pipelineFailed, predicates>>
    /\ UNCHANGED <<rx_replayer, evaluated>>
    /\ UNCHANGED <<rtVars, indexingRunning>>
    /\ UNCHANGED <<bpVars, evVars>>

(***************************************************************************)
(* "Initial predicate processing" thread of Service::run: the replay feed. *)
(***************************************************************************)
\* every sender of the replay channel is dropped: tx_replayer is a local of
\* run, its clones are held by the indexing processors update_state started
ReplaySendersDropped == runPc \in {"returned", "panicked"} /\ ~indexingRunning

\* An inscription indexing processor forwards a block to its
\* block_post_processor, a clone of tx_replayer.
ReplaySend ==
    /\ indexingRunning
    /\ Len(rx_replayer) + Len(evaluated) < MaxReplayed
    /\ \E block \in Heights : rx_replayer' = Append(rx_replayer, block)
    /\ UNCHANGED <<runPc, runResult, usPc, usResult, usRange, policyQueries, policyGaps,
                   policyDone, processorsStarted, pipelineCalls, pipelineFailed>>
    /\ UNCHANGED <<predicates, chainhook_config, bitcoin_predicates_ref, loadCalls,
                   loadFailed, rfPc, evaluated, spawned, rtVars, indexingRunning>>
    /\ UNCHANGED <<bpVars, evVars>>

\* RfRecv evaluating the block against the registry as it is now, the
\* lifecycle registrations handled so far included.
RfRecv_LiveRegistry ==
    /\ rfPc = "recv"
    /\ rx_replayer # <<>>
    /\ rx_replayer' = Tail(rx_replayer)
    /\ evaluated' = Append(evaluated,
                           [block |-> Head(rx_replayer),
                            predicates |-> bitcoin_predicates_ref
                                               \cup Range(bitcoin_scan_op),
                            registrations |-> registeredBitcoin])
    /\ UNCHANGED <<runPc, runResult, usPc, usResult, usRange, policyQueries, policyGaps,
                   policyDone, processorsStarted, pipelineCalls, pipelineFailed>>
    /\ UNCHANGED <<predicates, chainhook_config, bitcoin_predicates_ref, loadCalls,
                   loadFailed, rfPc, spawned, rtVars, indexingRunning>>
    /\ UNCHANGED <<bpVars, evVars>>

\* while let Ok(block) = rx_replayer.recv():
\* process_block_with_predicates(block, &bitcoin_predicates_ref, ..); an Err
\* is logged and the loop goes on.
RfRecv ==
    /\ rfPc = "recv"
    /\ rx_replayer # <<>>
    /\ rx_replayer' = Tail(rx_replayer)
    /\ evaluated' = Append(evaluated,
                           [block |-> Head(rx_replayer),
                            predicates |-> bitcoin_predicates_ref,
                            registrations |-> registeredBitcoin])
    /\ UNCHANGED <<runPc, runResult, usPc, usResult, usRange, policyQueries, policyGaps,
                   policyDone, processorsStarted, pipelineCalls, pipelineFailed>>
    /\ UNCHANGED <<predicates, chainhook_config, bitcoin_predicates_ref, loadCalls,
                   loadFailed, rfPc, spawned, rtVars, indexingRunning>>
    /\ UNCHANGED <<bpVars, evVars>>

\* RfRecvClosed unwrapping the result of recv: the closed channel panics the
\* thread.
RfRecvClosed_Unwrap ==
    /\ rfPc = "recv"
    /\ rx_replayer = <<>>
    /\ ReplaySendersDropped
    /\ rfPc' = "panicked"
    /\ UNCHANGED <<runPc, runResult, usPc, usResult, usRange, policyQueries, policyGaps,
                   policyDone, processorsStarted, pipelineCalls, pipelineFailed>>
    /\ UNCHANGED <<predicates, chainhook_config, bitcoin_predicates_ref, loadCalls,
                   loadFailed, rx_replayer, evaluated, spawned, rtVars, indexingRunning>>
    /\ UNCHANGED <<bpVars, evVars>>

\* while let Ok(block) = rx_replayer.recv(): Err ends the loop and the thread
RfRecvClosed ==
    /\ rfPc = "recv"
    /\ rx_replayer = <<>>
    /\ ReplaySendersDropped
    /\ rfPc' = "stopped"
    /\ UNCHANGED <<runPc, runResult, usPc, usResult, usRange, policyQueries, policyGaps,
                   policyDone, processorsStarted, pipelineCalls, pipelineFailed>>
    /\ UNCHANGED <<predicates, chainhook_config, bitcoin_predicates_ref, loadCalls,
                   loadFailed, rx_replayer, evaluated, spawned, rtVars, indexingRunning>>
    /\ UNCHANGED <<bpVars, evVars>>

ReplayFeed ==
    \/ RfRecv
    \/ RfRecvClosed

(***************************************************************************)
(* Lifecycle event loop of Service::run.                                   *)
(***************************************************************************)
ObserverEvent ==
    [kind : {"PredicateRegistered", "PredicateEnabled", "PredicateDeregistered"},
     spec : PredicateSpecs]
        \cup [kind : {"Terminate", "Other"}, spec : {NoSpec}]

\* what the handling of one event met: the event, the record of its key
\* before, whether the connection opened, which writes succeeded, how many
\* specifications it enqueued
Handled(event, before, conn, specOk, statusOk, delOk, enqueued) ==
    [kind |-> event.kind, spec |-> event.spec, before |-> before, conn |-> conn,
     spec_written |-> specOk, status_written |-> statusOk, deleted |-> delOk,
     enqueued |-> enqueued]
NoEvent == Handled([kind |-> "None", spec |-> NoSpec], NoRecord, FALSE, FALSE, FALSE,
                   FALSE, 0)

\* The observer sends a lifecycle event.
SendEvent ==
    /\ runPc = "loop"
    /\ observer_event_open
    /\ eventsSent < MaxEvents
    /\ \E event \in ObserverEvent :
           observer_event' = Append(observer_event, event)
    /\ eventsSent' = eventsSent + 1
    /\ UNCHANGED <<cfgVars, observer_event_open, store, bitcoin_scan_op,
                   registeredBitcoin, lastEvent>>
    /\ UNCHANGED <<runVars, bpVars>>
    /\ UNCHANGED evHist

\* The observer sends ObserverEvent::Terminate.
SendTerminate ==
    /\ SendEvent
    /\ observer_event' = Append(observer_event, [kind |-> "Terminate", spec |-> NoSpec])

\* The observer sends ObserverEvent::PredicateRegistered for a Bitcoin
\* specification.
SendBitcoinRegistered ==
    /\ SendEvent
    /\ \E spec \in {s \in PredicateSpecs : s.chain = "Bitcoin"} :
           observer_event' =
               Append(observer_event, [kind |-> "PredicateRegistered", spec |-> spec])

\* The sender side of observer_event is dropped.
DropEventSender ==
    /\ runPc = "loop"
    /\ observer_event_open
    /\ observer_event_open' = FALSE
    /\ UNCHANGED <<cfgVars, observer_event, eventsSent, store, bitcoin_scan_op,
                   registeredBitcoin, lastEvent>>
    /\ UNCHANGED <<runVars, bpVars>>
    /\ UNCHANGED evHist

\* observer_event_rx.recv(): Err(e) => break, then Ok(())
LoopRecvClosed ==
    /\ runPc = "loop"
    /\ observer_event = <<>>
    /\ ~observer_event_open
    /\ runPc' = "returned"
    /\ runResult' = "Ok"
    /\ UNCHANGED <<usPc, usResult, usRange, policyQueries, policyGaps, policyDone,
                   processorsStarted, pipelineCalls, pipelineFailed>>
    /\ UNCHANGED <<bpVars, evVars>>
    /\ UNCHANGED <<launchVars, rtVars, indexingRunning>>

\* observer_event_rx.recv() gives Ok(event) of this kind
Receives(kind) ==
    /\ runPc = "loop"
    /\ observer_event # <<>>
    /\ Head(observer_event).kind = kind

\* ScanDispatch sending the specification to the scan runloop whatever its
\* chain.
ScanDispatch_AnyChain(queue, spec) == Append(queue, spec)

\* match spec { Stacks(_) => {}, Bitcoin(predicate_spec) => bitcoin_scan_op_tx.send(..) }
ScanDispatch(queue, spec) ==
    IF spec.chain = "Bitcoin" THEN Append(queue, spec) ELSE queue

\* HandlePredicateRegistered returning the connection error from run instead
\* of continuing with the next event.
HandlePredicateRegistered_ConnFailureReturns ==
    /\ Receives("PredicateRegistered")
    /\ LET event == Head(observer_event)
           spec == event.spec
           k == key(spec)
       IN
       /\ observer_event' = Tail(observer_event)
       /\ registeredBitcoin' =
              registeredBitcoin + (IF spec.chain = "Bitcoin" THEN 1 ELSE 0)
       /\ \E conn \in (IF apiOn THEN BOOLEAN ELSE {FALSE}) :
          \E specOk, statusOk \in (IF conn THEN BOOLEAN ELSE {FALSE}) :
            /\ storeFailed' = (storeFailed \/ (apiOn /\ ~(conn /\ specOk /\ statusOk)))
            /\ IF apiOn /\ ~conn
               THEN /\ UNCHANGED <<store, bitcoin_scan_op>>
                    /\ runPc' = "returned"
                    /\ runResult' = "Err(open_readwrite_predicates_db_conn)"
                    /\ lastEvent' = Handled(event, store[k], conn, FALSE, FALSE, FALSE, 0)
               ELSE /\ UNCHANGED <<runPc, runResult>>
                    /\ store' =
                           IF apiOn
                           THEN update_predicate_status(
                                    update_predicate_spec(store, k, spec, specOk),
                                    k, "Disabled", statusOk)
                           ELSE store
                    /\ bitcoin_scan_op' = ScanDispatch(bitcoin_scan_op, spec)
                    /\ lastEvent' = Handled(event, store[k], conn, specOk, statusOk, FALSE,
                                            Len(bitcoin_scan_op') - Len(bitcoin_scan_op))
    /\ UNCHANGED <<cfgVars, observer_event_open, eventsSent>>
    /\ UNCHANGED <<usPc, usResult, usRange, policyQueries, policyGaps, policyDone,
                   processorsStarted, pipelineCalls, pipelineFailed, launchVars,
                   rtVars, indexingRunning>>
    /\ UNCHANGED bpVars
    /\ eventsHandled' = eventsHandled + 1
    /\ UNCHANGED terminateDuring

\* ObserverEvent::PredicateRegistered(spec)
HandlePredicateRegistered ==
    /\ Receives("PredicateRegistered")
    /\ LET event == Head(observer_event)
           spec == event.spec
           k == key(spec)
       IN
       /\ observer_event' = Tail(observer_event)
       /\ registeredBitcoin' =
              registeredBitcoin + (IF spec.chain = "Bitcoin" THEN 1 ELSE 0)
       /\ \E conn \in (IF apiOn THEN BOOLEAN ELSE {FALSE}) :
          \E specOk, statusOk \in (IF conn THEN BOOLEAN ELSE {FALSE}) :
            /\ storeFailed' = (storeFailed \/ (apiOn /\ ~(conn /\ specOk /\ statusOk)))
            /\ IF apiOn /\ ~conn
               THEN \* open_readwrite_predicates_db_conn: Err(e) => continue
                    /\ UNCHANGED <<store, bitcoin_scan_op>>
                    /\ lastEvent' = Handled(event, store[k], conn, FALSE, FALSE, FALSE, 0)
               ELSE /\ store' =
                           IF apiOn
                           THEN update_predicate_status(
                                    update_predicate_spec(store, k, spec, specOk),
                                    k, "Disabled", statusOk)
                           ELSE store
                    /\ bitcoin_scan_op' = ScanDispatch(bitcoin_scan_op, spec)
                    /\ lastEvent' = Handled(event, store[k], conn, specOk, statusOk, FALSE,
                                            Len(bitcoin_scan_op') - Len(bitcoin_scan_op))
    /\ UNCHANGED <<cfgVars, observer_event_open, eventsSent>>
    /\ UNCHANGED <<runVars, bpVars>>
    /\ eventsHandled' = eventsHandled + 1
    /\ UNCHANGED terminateDuring

\* HandlePredicateEnabled writing the status Streaming.
HandlePredicateEnabled_Streaming ==
    /\ Receives("PredicateEnabled")
    /\ LET event == Head(observer_event)
           spec == event.spec
           k == key(spec)
       IN
       /\ observer_event' = Tail(observer_event)
       /\ \E conn \in (IF apiOn THEN BOOLEAN ELSE {FALSE}) :
          \E specOk, statusOk \in (IF conn THEN BOOLEAN ELSE {FALSE}) :
            /\ store' =
                   IF apiOn /\ conn
                   THEN update_predicate_status(
                            update_predicate_spec(store, k, spec, specOk),
                            k, "Streaming", statusOk)
                   ELSE store
            /\ lastEvent' = Handled(event, store[k], conn, specOk, statusOk, FALSE, 0)
            /\ storeFailed' = (storeFailed \/ (apiOn /\ ~(conn /\ specOk /\ statusOk)))
    /\ UNCHANGED <<cfgVars, observer_event_open, eventsSent, bitcoin_scan_op,
                   registeredBitcoin>>
    /\ UNCHANGED <<runVars, bpVars>>
    /\ eventsHandled' = eventsHandled + 1
    /\ UNCHANGED terminateDuring

\* ObserverEvent::PredicateEnabled(spec)
HandlePredicateEnabled ==
    /\ Receives("PredicateEnabled")
    /\ LET event == Head(observer_event)
           spec == event.spec
           k == key(spec)
       IN
       /\ observer_event' = Tail(observer_event)
       /\ \E conn \in (IF apiOn THEN BOOLEAN ELSE {FALSE}) :
          \E specOk, statusOk \in (IF conn THEN BOOLEAN ELSE {FALSE}) :
            /\ store' =
                   IF apiOn /\ conn
                   THEN update_predicate_status(
                            update_predicate_spec(store, k, spec, specOk),
                            k, "InitialScanCompleted", statusOk)
                   ELSE store
            /\ lastEvent' = Handled(event, store[k], conn, specOk, statusOk, FALSE, 0)
            /\ storeFailed' = (storeFailed \/ (apiOn /\ ~(conn /\ specOk /\ statusOk)))
    /\ UNCHANGED <<cfgVars, observer_event_open, eventsSent, bitcoin_scan_op,
                   registeredBitcoin>>
    /\ UNCHANGED <<runVars, bpVars>>
    /\ eventsHandled' = eventsHandled + 1
    /\ UNCHANGED terminateDuring

\* HandlePredicateDeregistered opening the store and deleting the key
\* whatever self.config.http_api is.
HandlePredicateDeregistered_IgnoresApiOff ==
    /\ Receives("PredicateDeregistered")
    /\ LET event == Head(observer_event)
           spec == event.spec
           predicate_key == key(spec)
       IN
       /\ observer_event' = Tail(observer_event)
       /\ \E conn \in BOOLEAN :
          \E delOk \in (IF conn THEN BOOLEAN ELSE {FALSE}) :
            /\ store' = IF conn /\ delOk
                        THEN Del(store, predicate_key)
                        ELSE store
            /\ lastEvent' = Handled(event, store[predicate_key], conn, FALSE, FALSE,
                                    delOk, 0)
            /\ storeFailed' = (storeFailed \/ ~(conn /\ delOk))
    /\ UNCHANGED <<cfgVars, observer_event_open, eventsSent, bitcoin_scan_op,
                   registeredBitcoin>>
    /\ UNCHANGED <<runVars, bpVars>>
    /\ eventsHandled' = eventsHandled + 1
    /\ UNCHANGED terminateDuring

\* ObserverEvent::PredicateDeregistered(spec)
HandlePredicateDeregistered ==
    /\ Receives("PredicateDeregistered")
    /\ LET event == Head(observer_event)
           spec == event.spec
           predicate_key == key(spec)
       IN
       /\ observer_event' = Tail(observer_event)
       /\ \E conn \in (IF apiOn THEN BOOLEAN ELSE {FALSE}) :
          \E delOk \in (IF conn THEN BOOLEAN ELSE {FALSE}) :
            /\ store' = IF apiOn /\ conn /\ delOk
                        THEN Del(store, predicate_key)
                        ELSE store
            /\ lastEvent' = Handled(event, store[predicate_key], conn, FALSE, FALSE,
                                    delOk, 0)
            /\ storeFailed' = (storeFailed \/ (apiOn /\ ~(conn /\ delOk)))
    /\ UNCHANGED <<cfgVars, observer_event_open, eventsSent, bitcoin_scan_op,
                   registeredBitcoin>>
    /\ UNCHANGED <<runVars, bpVars>>
    /\ eventsHandled' = eventsHandled + 1
    /\ UNCHANGED terminateDuring

\* HandleTerminate without the `break`: the loop goes on receiving.
HandleTerminate_NoBreak ==
    /\ Receives("Terminate")
    /\ observer_event' = Tail(observer_event)
    /\ lastEvent' = Handled(Head(observer_event), NoRecord, FALSE, FALSE, FALSE, FALSE, 0)
    /\ UNCHANGED <<cfgVars, observer_event_open, eventsSent, store, bitcoin_scan_op,
                   registeredBitcoin>>
    /\ UNCHANGED <<runVars, bpVars>>
    /\ eventsHandled' = eventsHandled + 1
    /\ UNCHANGED storeFailed
    /\ terminateDuring' = (IF bpPc \in {"open", "undo", "apply", "send"}
                            THEN bpCmd.id ELSE 0)

\* HandleTerminate ending the block pre-processor thread as well, whatever it
\* is doing.
HandleTerminate_StopsWorker ==
    /\ Receives("Terminate")
    /\ observer_event' = Tail(observer_event)
    /\ lastEvent' = Handled(Head(observer_event), NoRecord, FALSE, FALSE, FALSE, FALSE, 0)
    /\ runPc' = "returned"
    /\ runResult' = "Ok"
    /\ UNCHANGED <<cfgVars, observer_event_open, eventsSent, store, bitcoin_scan_op,
                   registeredBitcoin>>
    /\ UNCHANGED <<usPc, usResult, usRange, policyQueries, policyGaps, policyDone,
                   processorsStarted, pipelineCalls, pipelineFailed>>
    /\ bpPc' = "stopped"
    /\ bpHandles' = FALSE
    /\ UNCHANGED <<bpChan, block_processor_out, bpCmd, bpIdx, received, blocksDb,
                   inscriptionsDb, bpLogs, ackedCmds, opensTried, bpOpenFailed>>
    /\ UNCHANGED <<launchVars, rtVars, indexingRunning>>
    /\ eventsHandled' = eventsHandled + 1
    /\ UNCHANGED storeFailed
    /\ terminateDuring' = (IF bpPc \in {"open", "undo", "apply", "send"}
                            THEN bpCmd.id ELSE 0)

\* ObserverEvent::Terminate => break, then Ok(())
HandleTerminate ==
    /\ Receives("Terminate")
    /\ observer_event' = Tail(observer_event)
    /\ lastEvent' = Handled(Head(observer_event), NoRecord, FALSE, FALSE, FALSE, FALSE, 0)
    /\ runPc' = "returned"
    /\ runResult' = "Ok"
    /\ UNCHANGED <<cfgVars, observer_event_open, eventsSent, store, bitcoin_scan_op,
                   registeredBitcoin>>
    /\ UNCHANGED <<usPc, usResult, usRange, policyQueries, policyGaps, policyDone,
                   processorsStarted, pipelineCalls, pipelineFailed>>
    /\ UNCHANGED bpVars
    /\ UNCHANGED <<launchVars, rtVars, indexingRunning>>
    /\ eventsHandled' = eventsHandled + 1
    /\ UNCHANGED storeFailed
    /\ terminateDuring' = (IF bpPc \in {"open", "undo", "apply", "send"}
                            THEN bpCmd.id ELSE 0)

\* _ => {}
HandleOther ==
    /\ Receives("Other")
    /\ observer_event' = Tail(observer_event)
    /\ lastEvent' = Handled(Head(observer_event), NoRecord, FALSE, FALSE, FALSE, FALSE, 0)
    /\ UNCHANGED <<cfgVars, observer_event_open, eventsSent, store, bitcoin_scan_op,
                   registeredBitcoin>>
    /\ UNCHANGED <<runVars, bpVars>>
    /\ eventsHandled' = eventsHandled + 1
    /\ UNCHANGED storeFailed
    /\ UNCHANGED terminateDuring

\* The scan worker (start_bitcoin_scan_runloop) reports the progress of the
\* scan of a specification it was sent: with the predicates API on it writes
\* a Scanning status under the key of the specification, through
\* update_predicate_status.
ScanWorkerStatus ==
    /\ apiOn
    /\ \E j \in DOMAIN bitcoin_scan_op :
       \E ok \in BOOLEAN :
           store' = update_predicate_status(store, key(bitcoin_scan_op[j]),
                                            "Scanning", ok)
    /\ UNCHANGED <<cfgVars, observer_event, observer_event_open, eventsSent,
                   bitcoin_scan_op, registeredBitcoin, lastEvent, evHist>>
    /\ UNCHANGED <<runVars, bpVars>>

LifecycleLoop ==
    \/ LoopRecvClosed
    \/ HandlePredicateRegistered
    \/ HandlePredicateEnabled
    \/ HandlePredicateDeregistered
    \/ HandleTerminate
    \/ HandleOther

(***************************************************************************)
(* Config::from_config_file (config/mod.rs), network and http_api parts.   *)
(***************************************************************************)
\* Option<T>: None and Some(v)
NoneOpt == <<>>
Some(v) == <<v>>
Option(values) == {NoneOpt} \cup {Some(v) : v \in values}

\* opt.unwrap_or(default)
unwrap_or(opt, default) == IF opt = NoneOpt THEN default ELSE opt[1]

DEFAULT_REDIS_URI == "redis://localhost:6379/"
DEFAULT_CONTROL_PORT == 20456

\* the http_api section of a ConfigFile as from_config_file reads it
HttpApiSections ==
    [disabled : Option(BOOLEAN),
     http_port : Option({8080}),
     display_logs : Option({FALSE}),
     database_uri : Option({"redis://cache:6379/"})]

\* the ConfigFile values from_config_file is called with: network.mode and
\* the optional http_api section
ConfigFiles ==
    [mode : {"devnet", "testnet", "mainnet", "regtest"},
     http_api : Option(HttpApiSections)]
NoConfigFile == [mode |-> "", http_api |-> NoneOpt]

\* PredicatesApi::Off and PredicatesApi::On(PredicatesApiConfig)
PredicatesApi_Off == [tag |-> "Off"]
PredicatesApi_On(api_config) == [tag |-> "On", config |-> api_config]

\* Result<Config, String>
NotLoaded == [ok |-> FALSE, err |-> ""]
Err(e) == [ok |-> FALSE, err |-> e]
Ok(v) == [ok |-> TRUE, value |-> v]

\* `match config_file.network.mode.as_str()`: (stacks_network, bitcoin_network)
NetworksOfMode(mode) ==
    CASE mode = "devnet" -> Some(<<"Devnet", "Regtest">>)
      [] mode = "testnet" -> Some(<<"Testnet", "Testnet">>)
      [] mode = "mainnet" -> Some(<<"Mainnet", "Mainnet">>)
      [] OTHER -> NoneOpt

\* `http_api: match config_file.http_api { .. }`
http_api_of(section) ==
    IF section = NoneOpt
    THEN PredicatesApi_Off
    ELSE LET http_api == section[1]
         IN  IF http_api.disabled = Some(FALSE)
             THEN PredicatesApi_Off
             ELSE PredicatesApi_On(
                      [http_port |-> unwrap_or(http_api.http_port, DEFAULT_CONTROL_PORT),
                       display_logs |-> unwrap_or(http_api.display_logs, TRUE),
                       database_uri |-> unwrap_or(http_api.database_uri,
                                                  DEFAULT_REDIS_URI)])

\* Config::from_config_file(config_file): an unsupported network.mode is an
\* Err, otherwise the Config (network and http_api fields)
from_config_file(file) ==
    IF NetworksOfMode(file.mode) = NoneOpt
    THEN Err("network.mode not supported")
    ELSE Ok([http_api |-> http_api_of(file.http_api),
             stacks_network |-> NetworksOfMode(file.mode)[1][1],
             bitcoin_network |-> NetworksOfMode(file.mode)[1][2]])

\* a call of Config::from_config_file, from its call to its return
FromConfigFile ==
    /\ cfPc = "call"
    /\ config' = from_config_file(config_file)
    /\ cfPc' = "returned"
    /\ UNCHANGED <<runVars, bpVars, apiOn, config_file, observer_event,
                   observer_event_open, eventsSent, store, bitcoin_scan_op,
                   registeredBitcoin, lastEvent, evHist>>

(***************************************************************************)
(* Initial states and specifications.                                      *)
(***************************************************************************)
\* Config::from_config_file is not called
InitConfigIdle ==
    /\ cfPc = "idle"
    /\ config_file = NoConfigFile
    /\ config = NotLoaded

InitRun ==
    /\ runPc = "start"
    /\ runResult = "None"
    /\ usPc = "idle"
    /\ usResult = "None"
    /\ usRange = NoRange
    /\ policyQueries = 0
    /\ policyGaps = <<>>
    /\ policyDone = FALSE
    /\ processorsStarted = 0
    /\ pipelineCalls = <<>>
    /\ pipelineFailed = FALSE
    /\ predicates \in LaunchLists
    /\ chainhook_config = ChainhookConfig_new
    /\ bitcoin_predicates_ref = {}
    /\ loadCalls = 0
    /\ loadFailed = FALSE
    /\ indexingRunning = FALSE
    /\ rx_replayer = <<>>
    /\ rfPc = "unspawned"
    /\ evaluated = <<>>
    /\ spawned = {}

\* Service::replay_transfers is not called
InitReplayIdle ==
    /\ rtPc = "idle"
    /\ rtArgs = NoArgs
    /\ rtResult = "None"
    /\ transfersProcessors = <<>>

InitBlocks ==
    /\ block_processor_in = <<>>
    /\ block_processor_in_open = TRUE
    /\ block_processor_out = <<>>
    /\ bpPc = "unspawned"
    /\ bpCmd = NoCmd
    /\ bpIdx = 1
    /\ received = <<>>
    /\ blocksDb = {}
    /\ inscriptionsDb = {}
    /\ rollbackLog = <<>>
    /\ compressFailed = {}
    /\ insertLog = <<>>
    /\ parseLog = <<>>
    /\ processLog = <<>>
    /\ ackLog = <<>>
    /\ ackedCmds = <<>>
    /\ bpHandles = FALSE
    /\ opensTried = 0
    /\ bpOpenFailed = FALSE

InitEvents ==
    /\ apiOn \in BOOLEAN
    /\ InitConfigIdle
    /\ observer_event = <<>>
    /\ observer_event_open = TRUE
    /\ eventsSent = 0
    /\ store \in PersistedStores
    /\ bitcoin_scan_op = <<>>
    /\ registeredBitcoin = 0
    /\ lastEvent = NoEvent
    /\ eventsHandled = 0
    /\ storeFailed = FALSE
    /\ terminateDuring = 0

\* Service::run is called
Init == InitRun /\ InitReplayIdle /\ InitBlocks /\ InitEvents

\* Service::run has caught up at the first policy query (no gap) and has
\* started its workers: the block pre-processor waits for its first command
\* and the lifecycle loop for its first event.
LiveRun ==
    /\ runPc = "loop"
    /\ runResult = "None"
    /\ usPc = "returned"
    /\ usResult = "Ok"
    /\ usRange = NoRange
    /\ policyQueries = 1
    /\ policyGaps = <<>>
    /\ policyDone = TRUE
    /\ processorsStarted = 0
    /\ pipelineCalls = <<>>
    /\ pipelineFailed = FALSE
    /\ block_processor_in = <<>>
    /\ block_processor_in_open = TRUE
    /\ block_processor_out = <<>>
    /\ bpPc = "recv"
    /\ bpCmd = NoCmd
    /\ bpIdx = 1
    /\ received = <<>>
    /\ blocksDb = {}
    /\ inscriptionsDb = {}
    /\ rollbackLog = <<>>
    /\ compressFailed = {}
    /\ insertLog = <<>>
    /\ parseLog = <<>>
    /\ processLog = <<>>
    /\ ackLog = <<>>
    /\ ackedCmds = <<>>
    /\ bpHandles = FALSE
    /\ opensTried = 0
    /\ bpOpenFailed = FALSE
    /\ apiOn \in BOOLEAN
    /\ InitConfigIdle
    /\ observer_event = <<>>
    /\ observer_event_open = TRUE
    /\ eventsSent = 0
    /\ bitcoin_scan_op = <<>>
    /\ registeredBitcoin = 0
    /\ lastEvent = NoEvent
    /\ eventsHandled = 0
    /\ storeFailed = FALSE
    /\ terminateDuring = 0
    /\ predicates = <<>>
    /\ chainhook_config = ChainhookConfig_new
    /\ bitcoin_predicates_ref = {}
    /\ loadCalls = (IF apiOn THEN 1 ELSE 0)
    /\ loadFailed = FALSE
    /\ indexingRunning = FALSE
    /\ rx_replayer = <<>>
    /\ rfPc = "recv"
    /\ evaluated = <<>>
    /\ spawned = Workers(apiOn)
    /\ InitReplayIdle

\* ... with an empty predicate store
Live ==
    /\ LiveRun
    /\ store = [k \in Keys |-> NoRecord]

\* ... with the predicates API disabled and the store as earlier runs left it
LiveApiOff ==
    /\ LiveRun
    /\ apiOn = FALSE
    /\ store \in PersistedStores

RunHead ==
    \/ RunCallUpdateState
    \/ RunAfterUpdateState
    \/ RunSpawnWorkers

\* the whole service
Next ==
    \/ RunHead
    \/ UpdateState
    \/ SendCommand
    \/ DropCommandSender
    \/ BlockPreProcessor
    \/ SendEvent
    \/ DropEventSender
    \/ LifecycleLoop
    \/ ReplaySend
    \/ ReplayFeed
    \/ ScanWorkerStatus
Spec == Init /\ [][Next]_vars

\* Service::run from its call to the entry of the lifecycle loop
NextUpdate ==
    \/ RunHead
    \/ UpdateState
SpecUpdate == Init /\ [][NextUpdate]_vars

\* the block pre-processor thread and the chain event source feeding it
NextBlocks ==
    \/ SendCommand
    \/ DropCommandSender
    \/ BlockPreProcessor
LiveBlocks == Live /\ apiOn = FALSE
SpecBlocks == LiveBlocks /\ [][NextBlocks]_vars

\* the lifecycle loop and the observer feeding it
NextLifecycle ==
    \/ SendEvent
    \/ DropEventSender
    \/ LifecycleLoop
SpecLifecycle == Live /\ [][NextLifecycle]_vars

\* the block pre-processor thread with the chain event source feeding it,
\* beside a lifecycle loop whose observer sends Terminate
NextTerminate ==
    \/ SendCommand
    \/ DropCommandSender
    \/ BlockPreProcessor
    \/ SendTerminate
    \/ HandleTerminate
SpecTerminate == LiveBlocks /\ [][NextTerminate]_vars

\* the lifecycle loop, the observer feeding it, and the scan worker fed by
\* the scan dispatch
NextScan ==
    \/ SendEvent
    \/ DropEventSender
    \/ LifecycleLoop
    \/ ScanWorkerStatus
SpecScan == Live /\ [][NextScan]_vars

\* the lifecycle loop of a service whose predicates API is disabled
SpecApiOff == LiveApiOff /\ [][NextLifecycle]_vars

\* Service::run from its call through its catch-up to its block pre-processor
\* and the chain event source feeding it
InitIndex ==
    /\ Init
    /\ predicates = <<>>
    /\ apiOn = FALSE
    /\ store = [k \in Keys |-> NoRecord]
NextIndex ==
    \/ RunHead
    \/ UpdateState
    \/ SendCommand
    \/ DropCommandSender
    \/ BlockPreProcessor
SpecIndex == InitIndex /\ [][NextIndex]_vars

\* Service::replay_transfers is called on a service that is not running
InitReplay ==
    /\ InitRun
    /\ predicates = <<>>
    /\ rtPc = "call"
    /\ rtArgs \in ReplayArgs
    /\ rtResult = "None"
    /\ transfersProcessors = <<>>
    /\ InitBlocks
    /\ InitEvents
    /\ apiOn = FALSE
    /\ store = [k \in Keys |-> NoRecord]
SpecReplay == InitReplay /\ [][ReplayTransfers]_vars

\* Config::from_config_file is called with a ConfigFile, no service is built
InitConfig ==
    /\ InitRun
    /\ predicates = <<>>
    /\ InitReplayIdle
    /\ InitBlocks
    /\ apiOn = FALSE
    /\ cfPc = "call"
    /\ config_file \in ConfigFiles
    /\ config = NotLoaded
    /\ observer_event = <<>>
    /\ observer_event_open = TRUE
    /\ eventsSent = 0
    /\ store = [k \in Keys |-> NoRecord]
    /\ bitcoin_scan_op = <<>>
    /\ registeredBitcoin = 0
    /\ lastEvent = NoEvent
    /\ eventsHandled = 0
    /\ storeFailed = FALSE
    /\ terminateDuring = 0
SpecConfig == InitConfig /\ [][FromConfigFile]_vars

\* Service::run launched with a Bitcoin predicate A and a Stacks predicate B,
\* an empty store and the predicates API disabled
InitLaunch ==
    /\ Init
    /\ predicates = <<FullA, FullB>>
    /\ apiOn = FALSE
    /\ store = [k \in Keys |-> NoRecord]

\* Service::run from its call to its return, and the observer feeding its
\* lifecycle loop
NextLaunch ==
    \/ RunHead
    \/ UpdateState
    \/ SendEvent
    \/ DropEventSender
    \/ LifecycleLoop
SpecLaunch == InitLaunch /\ [][NextLaunch]_vars

\* Service::run from its call to its return with its three channel-consuming
\* workers: the replay feed fed by the indexing processors of the catch-up,
\* the block pre-processor fed by the chain event source, and the lifecycle
\* loop, whose observer sends Terminate or goes away
NextWorkers ==
    \/ RunHead
    \/ UpdateState
    \/ ReplaySend
    \/ ReplayFeed
    \/ DropCommandSender
    \/ BpRecvClosed
    \/ SendTerminate
    \/ DropEventSender
    \/ LoopRecvClosed
    \/ HandleTerminate
SpecWorkers == InitLaunch /\ [][NextWorkers]_vars

\* Service::run launched with predicates A and B, its catch-up feeding the
\* replay feed, and its lifecycle loop receiving Bitcoin registrations
NextFeed ==
    \/ RunHead
    \/ UpdateState
    \/ ReplaySend
    \/ ReplayFeed
    \/ SendBitcoinRegistered
    \/ HandlePredicateRegistered
SpecFeed == InitLaunch /\ [][NextFeed]_vars

(***************************************************************************)
(* Properties of the block pre-processor (checked under SpecBlocks).       *)
(***************************************************************************)
\* the worker is not handling a command
BpWaiting == bpPc \in {"recv", "stopped"}

Heights_of(log) == {log[i] : i \in DOMAIN log}

\* C1: whenever the worker is between commands, the number of batches it
\* has sent on the processed-blocks channel equals the number of commands
\* it has received.
C1_AcksEqualCommands ==
    BpWaiting => Len(block_processor_out) = Len(received)

\* C2: once the worker has finished with a received command (it waits for
\* the next one, or its thread has ended), exactly one acknowledgment was
\* sent for that command and it carries the command's block set.
C2_EveryCommandAcknowledged ==
    (bpPc \in {"recv", "stopped", "panicked"} /\ received # <<>>)
        => /\ Len(ackLog) = 1
           /\ Heights_of(ackLog[1]) = Heights_of(bpCmd.blocks)

C5_RollbackAttemptedOnEveryBlock ==
    (BpWaiting /\ bpCmd.kind = "UndoBlocks")
        => /\ [i \in DOMAIN rollbackLog |-> rollbackLog[i][1]] = bpCmd.blocks
           /\ ackLog = <<bpCmd.blocks>>

(***************************************************************************)
(* Properties of Service::update_state (checked under SpecUpdate).         *)
(***************************************************************************)
\* C6: once should_sync_ordhook_db has reported that no gap remains,
\* update_state has returned Ok, and no step taken afterwards queries the
\* policy function again.
C6_ReturnsAtFirstNoGap ==
    /\ [](policyDone => (usPc = "returned" /\ usResult = "Ok"))
    /\ [][policyDone => policyQueries' = policyQueries]_vars

\* C6 witness: update_state returned Ok after the policy reported gaps and
\* then no gap.
C6_Witness ==
    /\ policyDone
    /\ usPc = "returned"
    /\ Len(policyGaps) = MaxGaps
    /\ policyQueries = MaxGaps + 1

\* C7: the processors started and the pipeline calls made never outnumber
\* the gaps reported, each pipeline call carries the (start, end, speed) of
\* the gap it was made for, and when update_state has returned there is one
\* processor and one pipeline call per reported gap; a single reported gap
\* (100, 105, 5) gives one processor and one call for 100 to 105 at speed 5.
C7_OneProcessorAndPipelinePerGap ==
    /\ Len(pipelineCalls) <= processorsStarted
    /\ processorsStarted <= Len(policyGaps)
    /\ \A i \in DOMAIN pipelineCalls : pipelineCalls[i] = policyGaps[i]
    /\ usPc = "returned" =>
           /\ processorsStarted = Len(policyGaps)
           /\ pipelineCalls = policyGaps
    /\ (usPc = "returned" /\ policyGaps = << <<100, 105, 5>> >>) =>
           /\ processorsStarted = 1
           /\ pipelineCalls = << <<100, 105, 5>> >>

\* C7 witness: the policy reported (100, 105, 5) once and then no gap.
C7_Witness ==
    /\ usPc = "returned"
    /\ policyDone
    /\ policyQueries = 2
    /\ policyGaps = << <<100, 105, 5>> >>
    /\ processorsStarted = 1
    /\ Len(pipelineCalls) = 1

\* C8: once a download_and_pipeline_blocks call has failed, update_state has
\* returned that error, no later step queries the policy, starts a processor
\* or calls the pipeline, and run returns the same error without reaching
\* the start of its workers or its lifecycle loop.
C8_PipelineErrorEndsCatchUp ==
    /\ [](pipelineFailed =>
            /\ usPc = "returned"
            /\ usResult = "Err(download_and_pipeline_blocks)"
            /\ runPc \in {"update_state", "returned"}
            /\ (runPc = "returned" => runResult = usResult))
    /\ [][pipelineFailed =>
            UNCHANGED <<policyQueries, policyGaps, processorsStarted, pipelineCalls>>]_vars

\* C8 witness: run has returned after the pipeline failed on the second
\* range of the catch-up.
C8_Witness ==
    /\ pipelineFailed
    /\ runPc = "returned"
    /\ Len(pipelineCalls) = 2

(***************************************************************************)
(* Properties of the lifecycle loop (checked under SpecLifecycle).         *)
(***************************************************************************)
\* C3: the number of specifications sent to the scan runloop equals the
\* number of Bitcoin PredicateRegistered events handled, whatever the store
\* did while they were handled.
C3_OneEnqueuePerBitcoinRegistration ==
    Len(bitcoin_scan_op) = registeredBitcoin

\* C9 as stated: right after a PredicateDeregistered event has been handled,
\* the store holds no record for its key and the status lookup finds nothing.
C9_DeregisteredLeavesNoRecord ==
    lastEvent.kind = "PredicateDeregistered" =>
        /\ store[key(lastEvent.spec)] = NoRecord
        /\ retrieve_predicate_status(store, key(lastEvent.spec)) = None

\* C9 (amended): right after a PredicateDeregistered event has been handled
\* with the API enabled, the connection opened and the delete succeeded, the
\* store holds no record for its key and the status lookup finds nothing;
\* when the API is disabled, the connection does not open or the delete
\* fails, the record of the key is what it was before the event.
C9_DeregisteredRemovesRecordWhenDeleted ==
    lastEvent.kind = "PredicateDeregistered" =>
        IF apiOn /\ lastEvent.conn /\ lastEvent.deleted
        THEN /\ store[key(lastEvent.spec)] = NoRecord
             /\ retrieve_predicate_status(store, key(lastEvent.spec)) = None
        ELSE store[key(lastEvent.spec)] = lastEvent.before

\* C9 witness: a record with a status and a specification was deleted.
C9_Witness ==
    /\ lastEvent.kind = "PredicateDeregistered"
    /\ lastEvent.deleted
    /\ DOMAIN lastEvent.before = {"status", "specification"}
    /\ store[key(lastEvent.spec)] = NoRecord

\* the record a single registration of spec writes
RegisteredRecord(spec) ==
    [specification |-> SerializeSpec(spec), status |-> "\"disabled\""]

\* C10 as stated: with the API enabled, right after PredicateRegistered has
\* been handled for a key that already had a record, the record holds the
\* status Disabled and the new specification and nothing else.
C10_ReRegistrationOverwrites ==
    (apiOn /\ lastEvent.kind = "PredicateRegistered" /\ lastEvent.before # NoRecord)
        => store[key(lastEvent.spec)] = RegisteredRecord(lastEvent.spec)

\* C10 (amended): with the API enabled, right after PredicateRegistered has
\* been handled with the connection opened and both field writes succeeded,
\* the record of the key holds the status Disabled and the new specification
\* and nothing else, whatever record the key had before, and the status
\* lookup gives Disabled.
C10_ReRegistrationOverwritesWhenWritten ==
    (/\ apiOn
     /\ lastEvent.kind = "PredicateRegistered"
     /\ lastEvent.conn
     /\ lastEvent.spec_written
     /\ lastEvent.status_written)
        => /\ store[key(lastEvent.spec)] = RegisteredRecord(lastEvent.spec)
           /\ retrieve_predicate_status(store, key(lastEvent.spec)) = "Disabled"

\* C10 witness: a registration has overwritten a record whose status and
\* specification both differed from the ones it wrote.
C10_Witness ==
    /\ apiOn
    /\ lastEvent.kind = "PredicateRegistered"
    /\ lastEvent.spec_written
    /\ lastEvent.status_written
    /\ DOMAIN lastEvent.before = {"status", "specification"}
    /\ lastEvent.before.status # "\"disabled\""
    /\ lastEvent.before.specification # SerializeSpec(lastEvent.spec)
    /\ store[key(lastEvent.spec)] = RegisteredRecord(lastEvent.spec)

(***************************************************************************)
(* Properties of the launch (checked under SpecLaunch and SpecUpdate).     *)
(***************************************************************************)
\* the specifications selected from FullA and FullB for the active networks
SpecA == Selected(<<bitcoin_network, stacks_network>>, FullA)
SpecB == Selected(<<bitcoin_network, stacks_network>>, FullB)

\* the launch specifications, by position, that register_full_specification
\* accepts for the active networks
AcceptedAt == {i \in DOMAIN predicates :
                  Accepted(<<bitcoin_network, stacks_network>>, predicates[i])}
SelectedAt(i) == Selected(<<bitcoin_network, stacks_network>>, predicates[i])

\* C16: once the consolidation is done, load_predicates_from_redis was
\* called once if the launch list is empty and the API enabled, and not at
\* all otherwise; after a call that failed the registry is empty, after a
\* call that succeeded it holds the persisted predicates the store held, and
\* without a call it holds nothing but specifications of the launch list;
\* unless the spawn of the replay feed panicked, run went on to its catch-up,
\* and if it has returned its result is Ok or the error of update_state.
C16_LoadsPersistedOnlyWithoutLaunchSpecs ==
    runPc # "start" =>
        /\ loadCalls = (IF predicates = <<>> /\ apiOn THEN 1 ELSE 0)
        /\ loadFailed => (loadCalls = 1 /\ chainhook_config = ChainhookConfig_new)
        /\ (loadCalls = 1 /\ ~loadFailed) =>
               Registered(chainhook_config) = load_predicates_from_redis(store)
        /\ loadCalls = 0 =>
               \A s \in Registered(chainhook_config) :
                   \E i \in AcceptedAt : s = SelectedAt(i)
        /\ chainhook_config.bitcoin_chainhooks \subseteq PredicateSpecs
        /\ chainhook_config.stacks_chainhooks \subseteq PredicateSpecs
        /\ runPc # "panicked" => usPc # "idle"
        /\ runPc = "returned" => runResult \in {"Ok", usResult}

\* C16 witness: the load failed while the store held persisted predicates,
\* and run entered its lifecycle loop with an empty registry.
C16_Witness ==
    /\ runPc = "loop"
    /\ loadCalls = 1
    /\ loadFailed
    /\ Cardinality(load_predicates_from_redis(store)) = 2
    /\ chainhook_config = ChainhookConfig_new

\* C17: once the consolidation of a non-empty launch list is done, every
\* specification of the registry is the selection of an accepted launch
\* specification; an accepted launch specification is in the registry unless
\* a later accepted one has its uuid, and its uuid is in the registry in any
\* case, whatever was rejected before or after it; the uuid of a rejected
\* launch specification is in the registry only if an accepted one has it.
C17_RejectedLaunchSpecDropped ==
    (runPc # "start" /\ predicates # <<>>) =>
        /\ \A s \in Registered(chainhook_config) :
               \E i \in AcceptedAt : s = SelectedAt(i)
        /\ \A i \in AcceptedAt :
               /\ \E s \in Registered(chainhook_config) : s.uuid = predicates[i].uuid
               /\ (\A j \in AcceptedAt : j > i => predicates[j].uuid # predicates[i].uuid)
                      => SelectedAt(i) \in Registered(chainhook_config)
        /\ \A i \in (DOMAIN predicates) \ AcceptedAt :
               (\A j \in AcceptedAt : predicates[j].uuid # predicates[i].uuid)
                   => \A s \in Registered(chainhook_config) : s.uuid # predicates[i].uuid

\* C17 witness: the second of three launch specifications was rejected, the
\* first and the third are registered.
C17_Witness ==
    /\ runPc = "loop"
    /\ Len(predicates) = 3
    /\ AcceptedAt = {1, 3}
    /\ Registered(chainhook_config) = {SelectedAt(1), SelectedAt(3)}
    /\ Cardinality(Registered(chainhook_config)) = 2

\* C11 as stated: when run, launched with the Bitcoin predicate A and the
\* Stacks predicate B, an empty store and the API disabled, has returned Ok,
\* the registry holds A and B, A was sent to the scan runloop and B was not.
C11_LaunchEnqueuesBitcoinPredicate ==
    (runPc = "returned" /\ runResult = "Ok") =>
        /\ Registered(chainhook_config) = {SpecA, SpecB}
        /\ \E i \in DOMAIN bitcoin_scan_op : bitcoin_scan_op[i].uuid = "A"
        /\ \A i \in DOMAIN bitcoin_scan_op : bitcoin_scan_op[i].uuid # "B"

\* C11 (amended): once the consolidation of such a launch is done, the
\* registry holds A as its Bitcoin predicate and B as its Stacks predicate
\* and the replay feed, once spawned, evaluates blocks against A; the launch sends nothing
\* to the scan runloop: the queue holds one entry per Bitcoin
\* PredicateRegistered event handled by the lifecycle loop, none before the
\* loop is entered, and never a Stacks predicate.
C11_LaunchEnqueuesNothing ==
    runPc # "start" =>
        /\ chainhook_config.bitcoin_chainhooks = {SpecA}
        /\ chainhook_config.stacks_chainhooks = {SpecB}
        /\ rfPc # "unspawned" => bitcoin_predicates_ref = {SpecA}
        /\ Len(bitcoin_scan_op) = registeredBitcoin
        /\ (runPc \in {"update_state", "spawn"} \/ lastEvent = NoEvent)
               => bitcoin_scan_op = <<>>
        /\ \A i \in DOMAIN bitcoin_scan_op : bitcoin_scan_op[i].chain = "Bitcoin"

\* C11 witness: run has caught up over a gap, entered its lifecycle loop and
\* returned on Terminate without anything sent to the scan runloop.
C11_Witness ==
    /\ runPc = "returned"
    /\ runResult = "Ok"
    /\ Len(pipelineCalls) = 1
    /\ lastEvent.kind = "Terminate"
    /\ Registered(chainhook_config) = {SpecA, SpecB}
    /\ bitcoin_scan_op = <<>>

(***************************************************************************)
(* Properties of the lifecycle loop, continued (checked under              *)
(* SpecLifecycle).                                                         *)
(***************************************************************************)
\* C12: after a successful catch-up, run has returned only if the event
\* handled last is Terminate or the lifecycle channel is closed and empty,
\* and then it has returned Ok; once Terminate has been handled no step
\* consumes an event, writes the store, sends to the scan runloop or handles
\* anything.
C12_ReturnsOnlyOnTerminateOrClosure ==
    /\ [](runPc = "returned" =>
            /\ runResult = "Ok"
            /\ \/ lastEvent.kind = "Terminate"
               \/ (~observer_event_open /\ observer_event = <<>>))
    /\ [](lastEvent.kind = "Terminate" => (runPc = "returned" /\ runResult = "Ok"))
    /\ [][lastEvent.kind = "Terminate" =>
            /\ Len(observer_event') >= Len(observer_event)
            /\ UNCHANGED <<store, bitcoin_scan_op, registeredBitcoin, lastEvent,
                           runPc, runResult>>]_vars

\* C12 witness: run has returned on Terminate while a registration sent
\* after it is still in the channel, unhandled.
C12_Witness ==
    /\ runPc = "returned"
    /\ runResult = "Ok"
    /\ lastEvent.kind = "Terminate"
    /\ observer_event_open
    /\ observer_event # <<>>
    /\ Head(observer_event).kind = "PredicateRegistered"
    /\ bitcoin_scan_op = <<>>

(***************************************************************************)
(* Properties of the block pre-processor, continued (checked under         *)
(* SpecBlocks).                                                            *)
(***************************************************************************)
\* C13: the worker receives the commands in the order they were sent; the
\* k-th batch it sends carries the blocks of the k-th command it sent a batch
\* for, these commands are in increasing order of arrival, and no command
\* gets two batches; while a command is handled it is the one received
\* last; a command is received only while the worker waits, and a batch is
\* sent only for the command received last.
C13_CommandsHandledInArrivalOrder ==
    /\ [](/\ \A i \in DOMAIN received : received[i].id = i
          /\ Len(ackedCmds) = Len(block_processor_out)
          /\ \A k \in DOMAIN ackedCmds :
                 /\ ackedCmds[k] \in DOMAIN received
                 /\ block_processor_out[k] = received[ackedCmds[k]].blocks
                 /\ \A j \in 1..(k - 1) : ackedCmds[j] < ackedCmds[k]
          /\ bpPc \in {"open", "undo", "apply", "send", "panicked"} =>
                 bpCmd = received[Len(received)])
    /\ [][/\ received' # received =>
                 (bpPc = "recv" /\ Len(received') = Len(received) + 1)
          /\ ackedCmds' # ackedCmds =>
                 (/\ ackedCmds' = Append(ackedCmds, Len(received))
                  /\ received' = received
                  /\ bpPc' = "recv")]_vars

\* C13 witness: two commands with different blocks were received and each
\* got its batch, in order.
C13_Witness ==
    /\ bpPc = "recv"
    /\ Len(received) = 2
    /\ ackedCmds = <<1, 2>>
    /\ received[1].blocks # received[2].blocks
    /\ block_processor_out = <<received[1].blocks, received[2].blocks>>

(***************************************************************************)
(* Properties of the predicate statuses (checked under SpecLifecycle).     *)
(***************************************************************************)
\* C14: with the predicates API enabled, right after PredicateRegistered has
\* been handled with the connection opened and the status written, the
\* status of its key is Disabled; right after PredicateEnabled has been
\* handled with the connection opened and both fields written, the status of
\* its key is InitialScanCompleted and its specification is the given one;
\* every status the loop leaves in the store is Disabled or
\* InitialScanCompleted, and no step takes a key from Disabled to Streaming.
C14_LoopWritesDisabledOrCompleted ==
    /\ []((apiOn /\ lastEvent.conn /\ lastEvent.status_written) =>
            LET k == key(lastEvent.spec) IN
            /\ lastEvent.kind = "PredicateRegistered" =>
                   retrieve_predicate_status(store, k) = "Disabled"
            /\ (lastEvent.kind = "PredicateEnabled" /\ lastEvent.spec_written) =>
                   /\ retrieve_predicate_status(store, k) = "InitialScanCompleted"
                   /\ store[k].specification = SerializeSpec(lastEvent.spec))
    /\ [](\A k \in Keys :
            retrieve_predicate_status(store, k)
                \in {None, "Disabled", "InitialScanCompleted"})
    /\ [][\A k \in Keys :
            retrieve_predicate_status(store, k) = "Disabled" =>
                retrieve_predicate_status(store', k) # "Streaming"]_vars

\* C14 witness: a registered predicate, Disabled in the store, was enabled
\* with another specification and is now InitialScanCompleted.
C14_Witness ==
    /\ apiOn
    /\ lastEvent.kind = "PredicateEnabled"
    /\ lastEvent.conn
    /\ lastEvent.spec_written
    /\ lastEvent.status_written
    /\ DOMAIN lastEvent.before = {"status", "specification"}
    /\ lastEvent.before.status = "\"disabled\""
    /\ lastEvent.before.specification # SerializeSpec(lastEvent.spec)
    /\ retrieve_predicate_status(store, key(lastEvent.spec)) = "InitialScanCompleted"

(***************************************************************************)
(* Store failures in the lifecycle loop (checked under SpecLifecycle).     *)
(***************************************************************************)
\* C15: every event sent is either still in the channel or was handled
\* exactly once; the handling of an event other than Terminate, whatever the
\* store did, takes that one event from the channel and leaves the loop
\* running with no result set; after a store failure the loop can handle the
\* next event in the channel, and if run has returned it did so with Ok on
\* Terminate or on the closure of the channel.
C15_StoreFailureIsEventScoped ==
    /\ [](eventsHandled + Len(observer_event) = eventsSent)
    /\ [][eventsHandled' # eventsHandled =>
            /\ eventsHandled' = eventsHandled + 1
            /\ observer_event # <<>>
            /\ observer_event' = Tail(observer_event)
            /\ Head(observer_event).kind # "Terminate" =>
                   (runPc' = "loop" /\ runResult' = runResult)]_vars
    /\ []((storeFailed /\ runPc = "loop" /\ observer_event # <<>>) =>
            ENABLED LifecycleLoop)
    /\ []((storeFailed /\ runPc = "returned") =>
            /\ runResult = "Ok"
            /\ \/ lastEvent.kind = "Terminate"
               \/ (~observer_event_open /\ observer_event = <<>>))

\* C15 witness: Terminate was the third event handled, after an earlier
\* event met a store failure, and run returned Ok.
C15_Witness ==
    /\ storeFailed
    /\ eventsHandled = 3
    /\ lastEvent.kind = "Terminate"
    /\ runPc = "returned"
    /\ runResult = "Ok"

(***************************************************************************)
(* Properties of Service::replay_transfers (checked under SpecReplay).     *)
(***************************************************************************)
\* C18: replay_transfers never queries the sync policy and starts no
\* indexing processor; it starts at most one transfer-recomputation
\* processor and makes at most one pipeline call; once it has returned it
\* has started exactly one processor, with the sink it was given, and made
\* exactly one pipeline call, for start_block to end_block at speed 100, and
\* its result is the error of that call when the call failed and Ok when it
\* did not.
C18_ReplayIsOneProcessorOnePipelineCall ==
    /\ policyQueries = 0
    /\ processorsStarted = 0
    /\ Len(transfersProcessors) <= 1
    /\ Len(pipelineCalls) <= Len(transfersProcessors)
    /\ rtPc = "returned" =>
           /\ transfersProcessors = <<rtArgs.sink>>
           /\ pipelineCalls = << <<rtArgs.start_block, rtArgs.end_block, 100>> >>
           /\ rtResult = IF pipelineFailed THEN "Err(download_and_pipeline_blocks)"
                         ELSE "Ok"

\* C18 witness: replay_transfers(102, 107, Some(sink)) has returned the
\* error of its pipeline call.
C18_Witness ==
    /\ rtPc = "returned"
    /\ rtArgs = [start_block |-> 102, end_block |-> 107, sink |-> TRUE]
    /\ pipelineFailed
    /\ rtResult = "Err(download_and_pipeline_blocks)"
    /\ Len(pipelineCalls) = 1

\* C20: the worker has called open_readwrite_ordhook_dbs once for every
\* command it received (the call for the command just received still to
\* come) and holds the handles only while it rolls back or applies that
\* command, never while it waits; when the open fails the worker is back at
\* its receive with nothing rolled back, persisted, extracted, sequenced or
\* sent for that command and both stores as they were, and it receives the
\* next command of the channel.
C20_HandlesOpenedPerCommand ==
    /\ [](/\ opensTried = Len(received) - (IF bpPc = "open" THEN 1 ELSE 0)
          /\ bpHandles <=> bpPc \in {"undo", "apply", "send"}
          /\ bpOpenFailed =>
                 /\ bpPc \in {"recv", "stopped"}
                 /\ rollbackLog = <<>>
                 /\ compressFailed = {}
                 /\ insertLog = <<>>
                 /\ parseLog = <<>>
                 /\ processLog = <<>>
                 /\ ackLog = <<>>
          /\ (bpOpenFailed /\ block_processor_in # <<>>) =>
                 (bpPc = "recv" /\ ENABLED BpRecv))
    /\ [][(bpOpenFailed' /\ ~bpOpenFailed) =>
              /\ bpPc' = "recv"
              /\ UNCHANGED <<blocksDb, inscriptionsDb, block_processor_out, received>>]_vars

\* C20 witness: the open failed for the first command, and the second
\* command was received, handled with handles opened for it and its batch
\* sent.
C20_Witness ==
    /\ bpPc = "recv"
    /\ Len(received) = 2
    /\ opensTried = 2
    /\ ackedCmds = <<2>>
    /\ ~bpOpenFailed
    /\ ~bpHandles

(***************************************************************************)
(* Writers of the persistent index (checked under SpecIndex).              *)
(***************************************************************************)
\* C19: the block pre-processor holds its read-write handles only while it
\* handles the one command it received last, and never while an indexing
\* processor of the catch-up may be writing; once the pre-processor is
\* started update_state has returned Ok and no indexing processor is
\* running; and a step changes the raw-block store or the inscriptions store
\* only while the pre-processor holds its handles.
C19_SingleIndexWriter ==
    /\ [](/\ ~(bpHandles /\ indexingRunning)
          /\ bpHandles => (bpPc \in {"undo", "apply", "send"} /\ bpCmd = received[Len(received)])
          /\ bpPc # "unspawned" =>
                 (usPc = "returned" /\ usResult = "Ok" /\ ~indexingRunning)
          /\ indexingRunning => received = <<>>)
    /\ [][(blocksDb' # blocksDb \/ inscriptionsDb' # inscriptionsDb) =>
              (bpHandles /\ ~indexingRunning /\ usPc = "returned")]_vars

\* C19 witness: after a catch-up over two gaps the pre-processor, holding its
\* handles, has written a block of its second command.
C19_Witness ==
    /\ processorsStarted = 2
    /\ ~indexingRunning
    /\ Len(received) = 2
    /\ bpHandles
    /\ bpPc = "apply"
    /\ insertLog # <<>>

BpBusy == bpPc \in {"open", "undo", "apply", "send"}

C23_ChannelClosureStopsWorkerSilently ==
    /\ [](/\ (bpPc = "recv" /\ block_processor_in = <<>> /\ ~block_processor_in_open)
                 => ENABLED BpRecvClosed
          /\ (rfPc = "recv" /\ rx_replayer = <<>> /\ ReplaySendersDropped)
                 => ENABLED RfRecvClosed
          /\ (runPc = "loop" /\ observer_event = <<>> /\ ~observer_event_open)
                 => ENABLED LoopRecvClosed
          /\ bpPc = "stopped" => (block_processor_in = <<>> /\ ~block_processor_in_open)
          /\ rfPc = "stopped" => (rx_replayer = <<>> /\ ReplaySendersDropped)
          /\ (runPc = "returned" /\ usResult = "Ok" /\ lastEvent.kind # "Terminate")
                 => (observer_event = <<>> /\ ~observer_event_open /\ runResult = "Ok")
          /\ rfPc # "panicked")
    /\ [][(bpPc = "recv" /\ block_processor_in = <<>> /\ ~block_processor_in_open
               /\ bpPc' # bpPc) => bpPc' = "stopped"]_vars
    /\ [][(rfPc = "recv" /\ rx_replayer = <<>> /\ ReplaySendersDropped
               /\ rfPc' # rfPc) => rfPc' = "stopped"]_vars
    /\ [][(runPc = "loop" /\ observer_event = <<>> /\ ~observer_event_open
               /\ runPc' # runPc) => (runPc' = "returned" /\ runResult' = "Ok")]_vars

\* C23 witness: the three channels were closed; the replay feed evaluated
\* the block it had been sent and stopped, the block pre-processor stopped,
\* and run returned Ok(()) without having received a Terminate.
C23_Witness ==
    /\ bpPc = "stopped"
    /\ rfPc = "stopped"
    /\ evaluated # <<>>
    /\ runPc = "returned"
    /\ runResult = "Ok"
    /\ lastEvent = NoEvent

(***************************************************************************)
(* Scan dispatch (checked under SpecLifecycle).                            *)
(***************************************************************************)
\* C24: every specification sent to the scan runloop is Bitcoin-scoped; a
\* step sends at most one, and only the handling of a PredicateRegistered
\* event carrying a Bitcoin specification sends it, that specification,
\* behind those sent before; so the number of specifications sent never
\* exceeds the number of Bitcoin PredicateRegistered events received.
C24_OnlyBitcoinRegistrationsEnqueued ==
    /\ [](/\ \A i \in DOMAIN bitcoin_scan_op : bitcoin_scan_op[i].chain = "Bitcoin"
          /\ Len(bitcoin_scan_op) <= registeredBitcoin)
    /\ [][bitcoin_scan_op' # bitcoin_scan_op =>
              /\ observer_event # <<>>
              /\ Head(observer_event).kind = "PredicateRegistered"
              /\ Head(observer_event).spec.chain = "Bitcoin"
              /\ bitcoin_scan_op' = Append(bitcoin_scan_op, Head(observer_event).spec)
              /\ registeredBitcoin' = registeredBitcoin + 1]_vars

\* C24 witness: three events were handled, the last one not a registration
\* and one of them writing the record of the Stacks predicate; a single
\* specification was sent to the scan runloop, for the single Bitcoin
\* registration received.
C24_Witness ==
    /\ eventsHandled = 3
    /\ registeredBitcoin = 1
    /\ Len(bitcoin_scan_op) = 1
    /\ lastEvent.kind \in {"PredicateEnabled", "PredicateDeregistered", "Other"}
    /\ store[key(CHOOSE s \in PredicateSpecs : s.chain = "Stacks")] # NoRecord

(***************************************************************************)
(* The predicate set of the replay feed (checked under SpecFeed).          *)
(***************************************************************************)
\* C25: once the replay feed is spawned, its predicate set is the set of
\* Bitcoin predicates of the consolidated registry and no step changes it;
\* every replayed block is evaluated against exactly that set, so a
\* specification the lifecycle loop received through a later
\* PredicateRegistered event, and sent to the scan runloop, is in the set
\* of no evaluation unless it is the predicate A the launch registered.
C25_ReplayFeedUsesSpawnSnapshot ==
    /\ [](rfPc # "unspawned" =>
            /\ bitcoin_predicates_ref = chainhook_config.bitcoin_chainhooks
            /\ \A i \in DOMAIN evaluated :
                   /\ evaluated[i].predicates = chainhook_config.bitcoin_chainhooks
                   /\ \A j \in DOMAIN bitcoin_scan_op :
                          bitcoin_scan_op[j] \in evaluated[i].predicates =>
                              bitcoin_scan_op[j] = SpecA)
    /\ [][rfPc # "unspawned" =>
              /\ bitcoin_predicates_ref' = bitcoin_predicates_ref
              /\ chainhook_config' = chainhook_config]_vars
    /\ [][evaluated' # evaluated =>
              /\ rx_replayer # <<>>
              /\ evaluated' = Append(evaluated,
                                     [block |-> Head(rx_replayer),
                                      predicates |-> bitcoin_predicates_ref,
                                      registrations |-> registeredBitcoin])]_vars

\* C25 witness: a block was replayed after the lifecycle loop had handled
\* the registration of a Bitcoin specification that the launch had not
\* registered; the block was evaluated against the launch predicate alone.
C25_Witness ==
    \E i \in DOMAIN evaluated :
        /\ evaluated[i].registrations > 0
        /\ evaluated[i].predicates = {SpecA}
        /\ \E j \in DOMAIN bitcoin_scan_op : bitcoin_scan_op[j] # SpecA

(***************************************************************************)
(* Worker spawns of Service::run (checked under SpecUpdate).               *)
(***************************************************************************)
\* C26: run is in its lifecycle loop only with every one of its long-lived
\* workers spawned: the replay feed, the scan runloop, the block
\* pre-processor, and the HTTP front door when the API is enabled.
C26_SpawnFailureIsFatal ==
    runPc = "loop" => spawned = Workers(apiOn)

(***************************************************************************)
(* End of the block pre-processor (checked under SpecBlocks).              *)
(***************************************************************************)
\* C27: the block pre-processor has left its loop only with its command
\* channel closed and empty; no failure met while a command is handled ends
\* it, so no command stays in the channel of a worker that is gone.
C27_StopsOnlyOnChannelClose ==
    bpPc \in {"stopped", "panicked"} =>
        (block_processor_in = <<>> /\ ~block_processor_in_open)

(***************************************************************************)
(* Fields of a store record (checked under SpecLifecycle).                 *)
(***************************************************************************)
\* C28: with the predicates API enabled, every record of the store that has
\* a status field has a specification field as well, whatever store writes
\* failed while the events were handled.
C28_StatusImpliesSpecification ==
    apiOn =>
        \A k \in Keys :
            "status" \in DOMAIN store[k] => "specification" \in DOMAIN store[k]

(***************************************************************************)
(* Deregistration and the scan worker (checked under SpecScan).            *)
(***************************************************************************)
\* C29: when the event handled last is a PredicateDeregistered whose delete
\* succeeded, for a predicate that had been sent to the scan runloop, the
\* store has no record under the key of that predicate, whatever the scan
\* worker has done since.
C29_DeregisteredStaysRemoved ==
    (/\ lastEvent.kind = "PredicateDeregistered"
     /\ lastEvent.conn
     /\ lastEvent.deleted
     /\ \E j \in DOMAIN bitcoin_scan_op : key(bitcoin_scan_op[j]) = key(lastEvent.spec))
        => store[key(lastEvent.spec)] = NoRecord

(***************************************************************************)
(* The lifecycle loop with the predicates API disabled (checked under      *)
(* SpecApiOff).                                                            *)
(***************************************************************************)
\* C30: with the predicates API disabled no step changes the store, and no
\* event handled opened a store connection, wrote a field or deleted a key;
\* the handling of an event takes it from the channel and changes nothing
\* else but the scan dispatch, which gets the specification of a Bitcoin
\* PredicateRegistered event and of no other event, and the position of
\* run, which returns Ok(()) on Terminate and stays in its loop otherwise;
\* so every Bitcoin registration received was sent to the scan runloop.
C30_ApiOffTouchesNoStore ==
    /\ [](/\ ~apiOn
          /\ ~lastEvent.conn
          /\ ~lastEvent.spec_written
          /\ ~lastEvent.status_written
          /\ ~lastEvent.deleted
          /\ ~storeFailed
          /\ Len(bitcoin_scan_op) = registeredBitcoin)
    /\ [][store' = store]_vars
    /\ [][eventsHandled' # eventsHandled =>
              LET event == Head(observer_event) IN
              /\ observer_event' = Tail(observer_event)
              /\ bitcoin_scan_op' =
                     IF event.kind = "PredicateRegistered" /\ event.spec.chain = "Bitcoin"
                     THEN Append(bitcoin_scan_op, event.spec)
                     ELSE bitcoin_scan_op
              /\ runPc' = IF event.kind = "Terminate" THEN "returned" ELSE "loop"
              /\ runResult' = IF event.kind = "Terminate" THEN "Ok" ELSE runResult
              /\ UNCHANGED <<bpVars, launchVars, rtVars, indexingRunning, usPc, usResult,
                             apiOn, observer_event_open, eventsSent>>]_vars

\* C30 witness: on a store holding the records of A and B, three events
\* were handled with the API disabled, among them the registration of a
\* Bitcoin predicate and, last, the deregistration of A: the records of A
\* and B are still there, and one specification was sent to the scan
\* runloop.
C30_Witness ==
    /\ ~apiOn
    /\ eventsHandled = 3
    /\ lastEvent.kind = "PredicateDeregistered"
    /\ lastEvent.spec.uuid = "A"
    /\ Len(bitcoin_scan_op) = 1
    /\ DOMAIN store["predicate:A"] = {"specification", "status"}
    /\ store["predicate:A"].status = "\"initial_scan_completed\""
    /\ store["predicate:B"] # NoRecord

\* C31: once the consolidation is done the registry never holds predicates
\* of both sources: launched with an empty list it holds nothing but
\* predicates persisted in the store, launched with a non-empty list it holds
\* nothing but selections of the launch list, and a persisted predicate whose
\* uuid the launch list supplies too is in the registry only as the launch
\* list selects it.
C31_RegistryNeverMixesSources ==
    runPc # "start" =>
        LET persisted == load_predicates_from_redis(store)
            launched == {SelectedAt(i) : i \in AcceptedAt}
            held == Registered(chainhook_config)
        IN  /\ predicates = <<>> => held \subseteq persisted
            /\ predicates # <<>> => held \subseteq launched
            /\ ~(held \ launched # {} /\ held \ persisted # {})
            /\ \A p \in persisted :
                   (\E i \in DOMAIN predicates : predicates[i].uuid = p.uuid)
                       => (p \in held => p \in launched)

\* C31 witness: with the API enabled the store persisted a predicate with
\* uuid A and the launch list supplied another one with that uuid; the
\* consolidation is done and the registry holds the launch one only.
C31_Witness ==
    /\ runPc = "loop"
    /\ apiOn
    /\ \E p \in load_predicates_from_redis(store) :
           /\ p.uuid = "A"
           /\ p \notin Registered(chainhook_config)
           /\ \E s \in Registered(chainhook_config) :
                  /\ s.uuid = "A"
                  /\ s # p
                  /\ \E i \in AcceptedAt : s = SelectedAt(i)

(***************************************************************************)
(* Properties of Config::from_config_file (checked under SpecConfig).      *)
(***************************************************************************)
\* C32: a Config that from_config_file returned has the predicates API Off
\* when the http_api section is absent or its disabled flag is true, and On,
\* with the port, log and database-uri values of the section or their
\* defaults, when the section is present and disabled is false or unset.
C32_DisabledFlagTurnsApiOff ==
    (cfPc = "returned" /\ config.ok) =>
        LET section == config_file.http_api
        IN  /\ section = NoneOpt => config.value.http_api = PredicatesApi_Off
            /\ (section # NoneOpt /\ section[1].disabled = Some(TRUE))
                   => config.value.http_api = PredicatesApi_Off
            /\ (section # NoneOpt /\ section[1].disabled \in {Some(FALSE), NoneOpt})
                   => config.value.http_api =
                          PredicatesApi_On(
                              [http_port |-> unwrap_or(section[1].http_port,
                                                       DEFAULT_CONTROL_PORT),
                               display_logs |-> unwrap_or(section[1].display_logs, TRUE),
                               database_uri |-> unwrap_or(section[1].database_uri,
                                                          DEFAULT_REDIS_URI)])

====
